---- MODULE Spec2Model ----
(***************************************************************************)
(* DreamHAL print module (src/modules/print.c): kvprintf, its sinks and    *)
(* the sprintf / snprintf / printf call shapes built on it; and the simple *)
(* print module (simple_print.c): the numeral and float renderers.         *)
(*                                                                         *)
(* Characters are their ASCII codes.  A 32-bit word is held as the integer *)
(* of -2^31 .. 2^31-1 that has the same bit pattern (two's complement):    *)
(* unsigned operations on a word are computed on its 16-bit halves.        *)
(***************************************************************************)
EXTENDS Integers, Sequences, FiniteSets, TLC

\* ------------------------------------------------------------ characters

AsciiTable ==
  [c \in {" ", "#", "%", "(", ")", "*", "+", ",", "-", ".", "0", "1", "2",
          "3", "4", "5", "6", "7", "8", "9", ":", "<", ">", "?", "D", "X",
          "a", "b", "c", "d", "f", "h", "i", "j", "l", "m", "n", "o", "p",
          "q", "r", "s", "t", "u", "x", "y", "z", "|", "\n",
          "A", "B", "E", "I", "N", "O", "T", "W", "Z", "[", "]", "^", "e", "k"} |->
     CASE c = "\n" -> 10
       [] c = " " -> 32  [] c = "#" -> 35  [] c = "%" -> 37  [] c = "(" -> 40
       [] c = ")" -> 41  [] c = "*" -> 42  [] c = "+" -> 43  [] c = "," -> 44
       [] c = "-" -> 45  [] c = "." -> 46  [] c = "0" -> 48  [] c = "1" -> 49
       [] c = "2" -> 50  [] c = "3" -> 51  [] c = "4" -> 52  [] c = "5" -> 53
       [] c = "6" -> 54  [] c = "7" -> 55  [] c = "8" -> 56  [] c = "9" -> 57
       [] c = ":" -> 58  [] c = "<" -> 60  [] c = ">" -> 62  [] c = "?" -> 63
       [] c = "A" -> 65  [] c = "B" -> 66  [] c = "D" -> 68  [] c = "E" -> 69
       [] c = "I" -> 73  [] c = "N" -> 78  [] c = "O" -> 79  [] c = "T" -> 84
       [] c = "W" -> 87  [] c = "X" -> 88  [] c = "Z" -> 90  [] c = "[" -> 91
       [] c = "]" -> 93  [] c = "^" -> 94  [] c = "e" -> 101 [] c = "k" -> 107
       [] c = "a" -> 97  [] c = "b" -> 98  [] c = "c" -> 99  [] c = "d" -> 100
       [] c = "f" -> 102 [] c = "h" -> 104 [] c = "i" -> 105 [] c = "j" -> 106
       [] c = "l" -> 108 [] c = "m" -> 109 [] c = "n" -> 110 [] c = "o" -> 111
       [] c = "p" -> 112 [] c = "q" -> 113 [] c = "r" -> 114 [] c = "s" -> 115
       [] c = "t" -> 116 [] c = "u" -> 117 [] c = "x" -> 120 [] c = "y" -> 121
       [] c = "z" -> 122 [] c = "|" -> 124]

\* The code of the character written "c" in the C source.
Asc(c) == AsciiTable[c]

\* The bytes of a C string literal, without its terminating NUL.
Str(s) == [i \in 1..Len(s) |-> Asc(s[i])]

NUL == 0

\* ------------------------------------------------------------ 32-bit words

INT_MIN == -2147483647 - 1

Hi(w) == (w \div 65536) % 65536
Lo(w) == w % 65536

\* unsigned w / b and w % b, for a divisor 2 <= b <= 36
UDiv(w, b) == (Hi(w) \div b) * 65536 + (((Hi(w) % b) * 65536 + Lo(w)) \div b)
UMod(w, b) == ((Hi(w) % b) * 65536 + Lo(w)) % b

RECURSIVE Pow2(_)
Pow2(n) == IF n = 0 THEN 1 ELSE 2 * Pow2(n - 1)

\* num & (1 << n): the bit numbers taken from origin 0
BitSet_origin0(w, n) ==
  IF n <= 15 THEN (Lo(w) \div Pow2(n)) % 2 = 1
             ELSE (Hi(w) \div Pow2(n - 16)) % 2 = 1

\* num & (1 << (n - 1)), for a bit number 1 <= n <= 32
BitSet(w, n) ==
  IF n <= 16 THEN (Lo(w) \div Pow2(n - 1)) % 2 = 1
             ELSE (Hi(w) \div Pow2(n - 17)) % 2 = 1

\* -(int)num, the negation taken modulo 2^32
Neg32(w) == IF w = INT_MIN THEN INT_MIN ELSE 0 - w

\* the casts applied to a fetched int argument
CastUShort(v) == Lo(v)
CastShort(v)  == IF Lo(v) >= 32768 THEN Lo(v) - 65536 ELSE Lo(v)
CastUChar(v)  == v % 256
CastChar(v)   == IF v % 256 >= 128 THEN (v % 256) - 256 ELSE v % 256

\* ------------------------------------------------------------ helpers

NBBY == 8
MAXNBUF == 4 * NBBY + 1
PRINT_BUFFER_SIZE == 1024
DCLOAD_WRITE == 1

hex2ascii_data ==
  << 48, 49, 50, 51, 52, 53, 54, 55, 56, 57,
     97, 98, 99, 100, 101, 102, 103, 104, 105, 106, 107, 108, 109,
     110, 111, 112, 113, 114, 115, 116, 117, 118, 119, 120, 121, 122 >>

hex2ascii(hex) == hex2ascii_data[hex + 1]

toupper(c) == c - 32 * (IF c >= 97 /\ c <= 122 THEN 1 ELSE 0)

imax(a, b) == IF a > b THEN a ELSE b

\* s is the bytes before the terminating NUL
strlen(s) == Len(s)

\* *(p + i) for a NUL-terminated string held without its terminator
At(s, i) == IF i < Len(s) THEN s[i + 1] ELSE NUL

Rep(c, n) == [j \in 1..n |-> c]

RECURSIVE Reverse(_)
Reverse(s) == IF s = << >> THEN << >> ELSE Reverse(Tail(s)) \o << Head(s) >>

\* ------------------------------------------------------------ ksprintn

\* The do { *++p = digit; } while (num /= base) loop: the digits as they
\* lie in nbuf[1..], least significant first.
RECURSIVE ksprintn_loop(_, _, _)
ksprintn_loop(num, base, upper) ==
  LET c    == hex2ascii(UMod(num, base))
      rest == UDiv(num, base)
  IN  << IF upper = 1 THEN toupper(c) ELSE c >>
        \o (IF rest # 0 THEN ksprintn_loop(rest, base, upper) ELSE << >>)

\* ksprintn with a digit loop for every base hex2ascii_data has digits for
ksprintn_anybase(num, base, upper) ==
  IF base >= 2 /\ base <= 36
  THEN ksprintn_loop(num, base, upper)
  ELSE << Asc("?") >>

\* nbuf[1..n] after ksprintn; *lenp is its length and the returned pointer
\* is at its last element.
ksprintn(num, base, upper) ==
  IF base = 10 \/ base = 16 \/ base = 8 \/ base = 2
  THEN ksprintn_loop(num, base, upper)
  ELSE << Asc("?") >>

\* ------------------------------------------------------------ simple_print.c

\* Memory is one array of bytes: the caller's array at address test_array
\* (the buffer it passes as out_string and whatever follows it), then the
\* two static buffers of float_to_string, with bytes of other objects
\* after each of them.
TestArraySize == 20
test_array == 0
temp_buffer_exp == test_array + TestArraySize
temp_buffer_mant == temp_buffer_exp + 12 + 4
MemSize == temp_buffer_mant + 4 + 7 + 9

StaticBytes ==
  (temp_buffer_exp .. (temp_buffer_exp + 11))
  \cup (temp_buffer_mant .. (temp_buffer_mant + 4 + 7 - 1))

\* A call in progress: the memory, the addresses it has read and written,
\* those it has read before writing them, the indices it has used into
\* dec_hex_data, float_to_string's local exponent_add_1, the pointer
\* returned, and the value a byte of unknown content reads as.
Fresh(mem, junk) ==
  [ mem |-> mem, rd |-> {}, wr |-> {}, stale |-> {}, idx |-> {},
    exponent_add_1 |-> 0, ret |-> 0 - 1, junk |-> junk ]

Poke(m, a, c) == [m EXCEPT !.mem[a + 1] = c, !.wr = @ \cup {a}]
Peek(m, a) == m.mem[a + 1]
Scan(m, a, n) ==
  [m EXCEPT !.rd = @ \cup (a .. (a + n - 1)),
            !.stale = @ \cup ((a .. (a + n - 1)) \ m.wr)]
Ret(m, p) == [m EXCEPT !.ret = p]

\* s[0..] stored byte by byte from address a
RECURSIVE PokeText(_, _, _)
PokeText(m, a, s) ==
  IF s = << >> THEN m ELSE PokeText(Poke(m, a, Head(s)), a + 1, Tail(s))

dec_hex_data ==
  Str(<< "0", "1", "2", "3", "4", "5", "6", "7", "8", "9", "a", "b", "c", "d", "e", "f" >>)

\* mem[a] = dec_hex_data[x]; an index outside the literal reads a byte of
\* unknown content
PokeDigit(m, a, x) ==
  [Poke(m, a, IF x >= 0 /\ x < 16 THEN dec_hex_data[x + 1]
              ELSE IF x = 16 THEN NUL ELSE m.junk)
     EXCEPT !.idx = @ \cup {x}]

\* stringlength(string): the bytes before the first NUL
RECURSIVE stringlength(_, _)
stringlength(m, string) ==
  IF Peek(m, string) = NUL THEN 0 ELSE 1 + stringlength(m, string + 1)

\* memmove(dst, src, n), as the C library defines it
memmove(m, dst, src, n) ==
  [m EXCEPT !.mem = [x \in 1..Len(m.mem) |->
                       IF x - 1 >= dst /\ x - 1 < dst + n
                       THEN m.mem[x - dst + src] ELSE m.mem[x]],
            !.rd = @ \cup (src .. (src + n - 1)),
            !.stale = @ \cup ((src .. (src + n - 1)) \ m.wr),
            !.wr = @ \cup (dst .. (dst + n - 1))]

\* a / b and a % b on int, for b > 0: the quotient truncates towards zero
CDiv(a, b) == IF a >= 0 THEN a \div b ELSE (a + (b - 1)) \div b
CRem(a, b) == a - b * CDiv(a, b)

\* for(i = 9; i >= 2; i--) { out_string[i] = dec_hex_data[in_number & 0x0f]; in_number >>= 4; }
RECURSIVE hex_to_string_loop(_, _, _, _)
hex_to_string_loop(m, in_number, out_string, i) ==
  IF i < 2 THEN m
  ELSE hex_to_string_loop(PokeDigit(m, out_string + i, UMod(in_number, 16)),
                          UDiv(in_number, 16), out_string, i - 1)

\* hex_to_string without the fixed width: the digits of the value alone
hex_to_string_compact(m, in_number, out_string) ==
  LET digs == Reverse(ksprintn_loop(in_number, 16, 0))
  IN  Ret(PokeText(m, out_string, Str(<< "0", "x" >>) \o digs \o << NUL >>), out_string)

hex_to_string(m, in_number, out_string) ==
  Ret(hex_to_string_loop(
        Poke(Poke(Poke(m, out_string, Asc("0")), out_string + 1, Asc("x")),
             out_string + 10, NUL),
        in_number, out_string, 9),
      out_string)

\* uint_to_string's loop without the realignment: the digits stay where
\* they were stored
RECURSIVE uint_to_string_unaligned(_, _, _, _)
uint_to_string_unaligned(m, in_number, out_string, i) ==
  IF i < 0 THEN m
  ELSE uint_to_string_unaligned(
         PokeDigit(m, out_string + i, UMod(in_number, 10)),
         UDiv(in_number, 10), out_string, i - 1)

\* for(i = 9; i >= 0; i--) { ... in_number /= 10; }
RECURSIVE uint_to_string_loop(_, _, _, _)
uint_to_string_loop(m, in_number, out_string, i) ==
  IF i < 0 THEN m
  ELSE IF in_number = 0 /\ i < 9
  THEN memmove(m, out_string, out_string + i + 1, 11 - i)
  ELSE uint_to_string_loop(PokeDigit(m, out_string + i, UMod(in_number, 10)),
                           UDiv(in_number, 10), out_string, i - 1)

uint_to_string(m, in_number, out_string) ==
  Ret(uint_to_string_loop(Poke(m, out_string + 10, NUL), in_number, out_string, 9),
      out_string)

\* for(i = 10; i >= 0; i--) { ... in_number /= 10; }
RECURSIVE int_to_string_loop(_, _, _, _, _, _)
int_to_string_loop(m, in_number, out_string, i, need_neg, neg) ==
  IF i < 0 THEN m
  ELSE IF need_neg = 1 /\ in_number = 0 /\ i < 10
  THEN int_to_string_loop(Poke(m, out_string + i, Asc("-")),
                          CDiv(in_number, 10), out_string, i - 1, 0, neg)
  ELSE IF in_number = 0 /\ i < 10
  THEN memmove(m, out_string, out_string + i + 1, 12 - i)
  ELSE int_to_string_loop(
         PokeDigit(m, out_string + i,
                   IF neg = 1 THEN 0 - CRem(in_number, 10) ELSE CRem(in_number, 10)),
         CDiv(in_number, 10), out_string, i - 1, need_neg, neg)

\* int_to_string taking the digits from -in_number
int_to_string_negated(m, in_number, out_string) ==
  LET neg == IF in_number < 0 THEN 1 ELSE 0
  IN  Ret(int_to_string_loop(Poke(m, out_string + 11, NUL),
                             IF neg = 1 THEN Neg32(in_number) ELSE in_number,
                             out_string, 10, neg, 0),
          out_string)

int_to_string(m, in_number, out_string) ==
  LET neg == IF in_number < 0 THEN 1 ELSE 0
  IN  Ret(int_to_string_loop(Poke(m, out_string + 11, NUL), in_number, out_string,
                             10, neg, neg),
          out_string)

\* for(j = digit_bound; j >= 0; j--) out_string[j] = '0';
RECURSIVE all_zeroes(_, _, _)
all_zeroes(m, out_string, j) ==
  IF j < 0 THEN m ELSE all_zeroes(Poke(m, out_string + j, Asc("0")), out_string, j - 1)

\* the loop stopping one bit lower
int_cutoff_wide == 8 + 1

int_cutoff == 8

\* a * b and a + b on unsigned int: the word the 32 bits hold, and whether
\* the exact result did not fit them
Word(hi, lo) == (IF hi >= 32768 THEN hi - 65536 ELSE hi) * 65536 + lo
Mul32(a, b) ==
  LET lo == Lo(a) * b
      hi == Hi(a) * b + (lo \div 65536)
  IN  [ word |-> Word(hi % 65536, lo % 65536), wrapped |-> hi >= 65536 ]
Add32(a, b) ==
  LET lo == Lo(a) + Lo(b)
      hi == Hi(a) + Hi(b) + (lo \div 65536)
  IN  [ word |-> Word(hi % 65536, lo % 65536), wrapped |-> hi >= 65536 ]

\* while(shifter >= (22 - int_cutoff)) { ... }: temp_output and fivecount
\* when the loop breaks, and whether either has wrapped on the way.  The
\* values after a round are settled before the next round starts.
RECURSIVE mantissa_walk(_, _, _)
mantissa_walk(mantissa, shifter, w) ==
  LET t == IF (mantissa \div Pow2(shifter)) % 2 = 1
           THEN Add32(w.temp_output, w.fivecount)
           ELSE [ word |-> w.temp_output, wrapped |-> FALSE ]
      n == [ temp_output |-> Mul32(t.word, 10).word,
             fivecount   |-> Mul32(w.fivecount, 5).word,
             wrapped     |-> \/ w.wrapped \/ t.wrapped
                             \/ Mul32(t.word, 10).wrapped
                             \/ Mul32(w.fivecount, 5).wrapped ]
  IN  IF shifter = 22 - int_cutoff
      THEN [w EXCEPT !.temp_output = t.word, !.wrapped = @ \/ t.wrapped]
      ELSE IF n.temp_output >= n.fivecount \/ n.wrapped
      THEN mantissa_walk(mantissa, shifter - 1, n)
      ELSE mantissa_walk(mantissa, shifter - 1, n)

\* temp_output when the loop breaks
mantissa_sum(mantissa, shifter, temp_output, fivecount) ==
  mantissa_walk(mantissa, shifter,
                [ temp_output |-> temp_output, fivecount |-> fivecount,
                  wrapped |-> FALSE ]).temp_output

\* the power of ten with one factor less
RECURSIVE tenpow_short(_)
tenpow_short(decimal_point_digits) ==
  IF decimal_point_digits = 0 THEN 1 ELSE 10 * tenpow_short(decimal_point_digits - 1)

\* tenpow = 10U; for(sillypow = 0; sillypow < decimal_point_digits; sillypow++) tenpow *= 10U;
RECURSIVE tenpow(_)
tenpow(decimal_point_digits) ==
  IF decimal_point_digits = 0 THEN 10 ELSE 10 * tenpow(decimal_point_digits - 1)

\* the last loop: the digits of temp_output from out_string[digit_bound] down
RECURSIVE mantissa_digits(_, _, _, _, _)
mantissa_digits(m, temp_output, out_string, j, digit_bound) ==
  IF j < 0 THEN m
  ELSE mantissa_digits(
         IF temp_output = 0 /\ j < digit_bound
         THEN Poke(m, out_string + j, Asc("0"))
         ELSE PokeDigit(m, out_string + j, temp_output % 10),
         temp_output \div 10, out_string, j - 1, digit_bound)

\* temp_output cut down to one digit more than asked for
mantissa_cut(temp_output, decimal_point_digits) ==
  IF decimal_point_digits = 1 THEN temp_output \div 10000000
  ELSE IF decimal_point_digits = 2 THEN temp_output \div 1000000
  ELSE IF decimal_point_digits = 3 THEN temp_output \div 100000
  ELSE temp_output

\* the FLOAT_ROUNDING branch and the conversion to digits
mantissa_round(m, temp_output, decimal_point_digits, out_string) ==
  LET round_check == temp_output % 10
      rounded     == temp_output + (10 - round_check)
  IN  IF round_check >= 5
      THEN IF rounded = tenpow(decimal_point_digits)
           THEN all_zeroes([m EXCEPT !.exponent_add_1 = 1], out_string,
                           decimal_point_digits - 1)
           ELSE mantissa_digits(m, rounded \div 10, out_string,
                                decimal_point_digits - 1, decimal_point_digits - 1)
      ELSE mantissa_digits(m, temp_output \div 10, out_string,
                           decimal_point_digits - 1, decimal_point_digits - 1)

mantissa_to_string(m, mantissa, decimal_point_digits, out_string) ==
  LET m0 == Poke(m, out_string + decimal_point_digits, NUL)
  IN  Ret(IF decimal_point_digits = 0 THEN Poke(m0, out_string, NUL)
          ELSE IF mantissa = 0
          THEN all_zeroes(m0, out_string, decimal_point_digits - 1)
          ELSE mantissa_round(
                 [m0 EXCEPT !.exponent_add_1 = 0],
                 mantissa_cut(mantissa_sum(mantissa, 22, 0, 5), decimal_point_digits),
                 decimal_point_digits, out_string),
          out_string)

\* FLOAT_FORMAT_STRUCT laid over the bits of a float
float_struct(in_float) ==
  [ mantissa |-> (Hi(in_float) % 128) * 65536 + Lo(in_float),
    exponent |-> (Hi(in_float) \div 128) % 256,
    sign     |-> Hi(in_float) \div 32768 ]

\* fcmp/eq and the C operator ==: false if either side is a NaN, true on
\* equal bits and on zeroes of either sign
IsNaN(f) == float_struct(f).exponent = 255 /\ float_struct(f).mantissa # 0
IsZero(f) == float_struct(f).exponent = 0 /\ float_struct(f).mantissa = 0
fcmp_eq(a, b) == ~IsNaN(a) /\ ~IsNaN(b) /\ (a = b \/ (IsZero(a) /\ IsZero(b)))

\* compare_isnan taking a NaN to be what has the top mantissa bit set
compare_isnan_quiet(input) ==
  IF float_struct(input).exponent = 255 /\ float_struct(input).mantissa >= 4194304
  THEN 1 ELSE 0

\* fcmp/eq in, in; mov #-1, out; negc out, out: out = 0 - (-1) - T
compare_isnan(input) ==
  LET T == IF fcmp_eq(input, input) THEN 1 ELSE 0
  IN  0 - (0 - 1) - T

\* append_string copying the whole of a 12-byte second buffer
append_string_whole(m, string1, string2, out_string) ==
  LET len1 == stringlength(m, string1)
  IN  Ret(memmove(memmove(Scan(m, string1, len1 + 1), out_string, string1, len1),
                  out_string + len1, string2, 12),
          out_string)

\* append_string(string1, string2, out_string)
append_string(m, string1, string2, out_string) ==
  LET len1 == stringlength(m, string1)
      len2 == stringlength(m, string2) + 1
  IN  Ret(memmove(memmove(Scan(Scan(m, string1, len1 + 1), string2, len2),
                          out_string, string1, len1),
                  out_string + len1, string2, len2),
          out_string)

\* the coefficient with the leading digit of a normal value
float_coefficient_normal(m, fs, denormal, decimal_point_digits) ==
  PokeText(mantissa_to_string(m, fs.mantissa, decimal_point_digits,
                              temp_buffer_mant + (IF fs.sign # 0 THEN 3 ELSE 2)),
           temp_buffer_mant,
           IF fs.sign # 0 THEN << Asc("-"), Asc("1"), Asc(".") >>
           ELSE << Asc("1"), Asc(".") >>)

\* the coefficient: the mantissa's digits after the sign, leading digit and '.'
float_coefficient(m, fs, denormal, decimal_point_digits) ==
  LET at   == IF fs.sign # 0 THEN 3 ELSE 2
      m1   == mantissa_to_string(m, fs.mantissa, decimal_point_digits,
                                 temp_buffer_mant + at)
      lead == IF denormal = 1 /\ m1.exponent_add_1 = 0 THEN Asc("0") ELSE Asc("1")
  IN  PokeText(m1, temp_buffer_mant,
               IF fs.sign # 0 THEN << Asc("-"), lead, Asc(".") >>
               ELSE << lead, Asc(".") >>)

\* the notation appended with no terminator after it
float_notation_open(m) ==
  LET mantlen == stringlength(m, temp_buffer_mant)
  IN  PokeText(Scan(m, temp_buffer_mant, mantlen + 1), temp_buffer_mant + mantlen,
               Str(<< "x", "2", "^" >>))

\* append power-of-2 notation to coefficient
float_notation(m) ==
  LET mantlen == stringlength(m, temp_buffer_mant)
  IN  PokeText(Scan(m, temp_buffer_mant, mantlen + 1), temp_buffer_mant + mantlen,
               Str(<< "x", "2", "^" >>) \o << NUL >>)

\* the exponent taken from the exponent field alone
float_exponent_field(m, fs, denormal) ==
  IF denormal = 1
  THEN PokeText(m, temp_buffer_exp, Str(<< "-", "1", "2", "6" >>) \o << NUL >>)
  ELSE int_to_string(m, fs.exponent - 127, temp_buffer_exp)

\* the exponent: "-126" for a denormal, or the unbiased exponent field
float_exponent(m, fs, denormal) ==
  IF denormal = 1
  THEN PokeText(m, temp_buffer_exp, Str(<< "-", "1", "2", "6" >>) \o << NUL >>)
  ELSE int_to_string(m, fs.exponent - 127 + m.exponent_add_1, temp_buffer_exp)

float_to_string(m, in_float, decimal_point_digits, out_string) ==
  LET fs == float_struct(in_float)
  IN  IF compare_isnan(in_float) # 0
      THEN Ret(PokeText(m, out_string, Str(<< "N", "a", "N" >>) \o << NUL >>), out_string)
      ELSE IF fcmp_eq(in_float, 0)
      THEN Ret(PokeText(m, out_string, Str(<< "0", ".", "0" >>) \o << NUL >>), out_string)
      ELSE IF fs.sign # 0 /\ fs.exponent = 255
      THEN Ret(PokeText(m, out_string, Str(<< "-", "I", "n", "f" >>) \o << NUL >>),
               out_string)
      ELSE IF fs.exponent = 255
      THEN Ret(PokeText(m, out_string, Str(<< "I", "n", "f" >>) \o << NUL >>), out_string)
      ELSE append_string(
             float_exponent(
               float_notation(
                 float_coefficient(m, fs, IF fs.exponent = 0 THEN 1 ELSE 0,
                                   decimal_point_digits)),
               fs, IF fs.exponent = 0 THEN 1 ELSE 0),
             temp_buffer_mant, temp_buffer_exp, out_string)

\* The values float_to_string answers with a literal, the temporaries
\* untouched.
Literal(in_float) ==
  \/ compare_isnan(in_float) # 0
  \/ fcmp_eq(in_float, 0)
  \/ float_struct(in_float).exponent = 255

\* float_to_string one step at a time.  Step 1 is the classification and,
\* for a number, the coefficient in temp_buffer_mant; step 2 the notation
\* appended to it; step 3 the exponent in temp_buffer_exp; step 4 the two
\* appended into out_string.
float_step(m, stage, in_float, decimal_point_digits, out_string) ==
  LET fs       == float_struct(in_float)
      denormal == IF fs.exponent = 0 THEN 1 ELSE 0
  IN  IF stage = 1
      THEN IF Literal(in_float)
           THEN float_to_string(m, in_float, decimal_point_digits, out_string)
           ELSE float_coefficient(m, fs, denormal, decimal_point_digits)
      ELSE IF stage = 2 THEN float_notation(m)
      ELSE IF stage = 3 THEN float_exponent(m, fs, denormal)
      ELSE append_string(m, temp_buffer_mant, temp_buffer_exp, out_string)

\* The step after: 5 once the function has returned.
float_next(stage, in_float) == IF stage = 1 /\ Literal(in_float) THEN 5 ELSE stage + 1

\* A nested call with temporaries of its own
Handled_private(m, h) == m

\* A call of float_to_string made by an interrupt handler while the call m
\* is in progress: it works on the same temp_buffer_mant and
\* temp_buffer_exp and on an out_string and locals of its own.
Handled(m, h) ==
  LET hm == float_to_string(Fresh(m.mem, m.junk), h.in, h.digits, test_array)
  IN  [m EXCEPT !.mem = [a \in 1..MemSize |->
                           IF a - 1 \in StaticBytes THEN hm.mem[a] ELSE m.mem[a]]]

\* ------------------------------------------------------------ state

VARIABLES
  todo,      \* the calls the caller has still to make, in order
  results,   \* what each returned call left behind, in order
  call,      \* the call being executed
  pc,        \* "idle", "scan" (copying literal text), "reswitch" (inside a
             \* directive), "kvret" (kvprintf has returned to its wrapper),
             \* "write" (printf is about to hand print_buffer over)
  kv,        \* kvprintf's locals, the sink (d, or info.str and info.remain),
             \* the destination memory and the characters given to PCHAR
  last,      \* the directive converted last: its conversion character,
             \* kvprintf's state when the switch reached it, and its text
  syscalls,  \* the dcloadsyscall calls made so far
  strings,   \* the simple_print calls that have returned, in order
  ram,       \* the memory the simple_print functions work on
  fts,       \* the float_to_string call in progress with interrupts
             \* unmasked: its next step, its request and its memory
  hit,       \* the handler call that interrupted the call in progress
  unmasked   \* the calls made with interrupts unmasked that have returned

vars == << todo, results, call, pc, kv, last, syscalls, strings, ram, fts, hit, unmasked >>

\* ------------------------------------------------------------ arguments

\* One variadic argument: an int, a char * (NULL or a string), an int * (for
\* %n) or an unsigned char * (for %D).
AInt(v)   == [t |-> "int",   i |-> v, s |-> << >>]
AStr(str) == [t |-> "str",   i |-> 0, s |-> str]
ANull     == [t |-> "null",  i |-> 0, s |-> << >>]
APtr(v)   == [t |-> "ptr",   i |-> v, s |-> << >>]
ABytes(b) == [t |-> "bytes", i |-> 0, s |-> b]

\* The next n arguments exist and have the types the code fetches them as.
HasArgs(k, types) ==
  /\ k.ap + Len(types) - 1 <= Len(call.args)
  /\ \A j \in 1..Len(types) : call.args[k.ap + j - 1].t \in types[j]

\* va_arg(ap, T)
va_arg(k) == call.args[k.ap]
va_next(k) == [k EXCEPT !.ap = @ + 1]

\* ------------------------------------------------------------ format memory

\* The format the loop reads: "(fmt null)\n" stands in for a NULL format.
FmtNull == Str(<< "(", "f", "m", "t", " ", "n", "u", "l", "l", ")", "\n" >>)
FmtText == IF call.fmtnull THEN FmtNull ELSE call.fmt

\* The byte at fmt: the format, its terminating NUL, then whatever memory
\* follows the terminator (call.tail, then a NUL).
FmtAt(i) ==
  IF i <= Len(FmtText) THEN FmtText[i]
  ELSE IF i = Len(FmtText) + 1 THEN NUL
  ELSE IF i - Len(FmtText) - 1 <= Len(call.tail) THEN call.tail[i - Len(FmtText) - 1]
  ELSE NUL

\* ------------------------------------------------------------ sinks

\* mem[i] = c on the destination memory (index 0 is the first byte); -1
\* marks a byte never written.
Unwritten == 0 - 1
Store(mem, i, c) ==
  IF i < Len(mem) THEN [mem EXCEPT ![i + 1] = c]
  ELSE mem \o Rep(Unwritten, i - Len(mem)) \o << c >>

\* snprintf_func leaving no room for the terminator
snprintf_func_full(k, ch) ==
  IF k.remain >= 1
  THEN [k EXCEPT !.dest = Store(@, k.str, ch), !.str = @ + 1, !.remain = @ - 1]
  ELSE k

snprintf_func(k, ch) ==
  IF k.remain >= 2
  THEN [k EXCEPT !.dest = Store(@, k.str, ch), !.str = @ + 1, !.remain = @ - 1]
  ELSE k

\* PCHAR(c): the character goes to func, or to *d++ when func is NULL, and
\* retval counts it either way.  emitted lists the characters given.
\* PCHAR counting only the characters the sink has stored
PCHAR_stored(k, c) ==
  LET cc == c % 256
      k1 == IF k.func = "snprintf_func" THEN snprintf_func(k, cc)
            ELSE [k EXCEPT !.dest = Store(@, k.d, cc), !.d = @ + 1]
  IN  [k1 EXCEPT !.retval = IF k1.dest # k.dest THEN @ + 1 ELSE @,
                 !.emitted = Append(@, cc)]

PCHAR(k, c) ==
  LET cc == c % 256
      k1 == IF k.func = "snprintf_func" THEN snprintf_func(k, cc)
            ELSE [k EXCEPT !.dest = Store(@, k.d, cc), !.d = @ + 1]
  IN  [k1 EXCEPT !.retval = @ + 1, !.emitted = Append(@, cc)]

\* PCHAR for each character of s in turn; the state after one character is
\* settled before the next is given.
RECURSIVE PCHARS(_, _)
PCHARS(k, s) ==
  IF s = << >> THEN k
  ELSE LET k1 == PCHAR(k, Head(s))
       IN  IF k1.retval # k.retval THEN PCHARS(k1, Tail(s)) ELSE k1

\* ------------------------------------------------------------ calls

BoundedApis   == {"snprintf", "vsnprintf", "vsnrprintf"}
UnboundedApis == {"sprintf", "vsprintf", "printf", "vprintf"}

\* size as the caller passes it: a number, or the previous call's return
\* value plus one (the probe-then-allocate idiom).
SizeOf(req) ==
  IF req.probe /\ results # << >> THEN results[Len(results)].retval + 1 ELSE req.size

\* kvprintf's locals on entry (lines 203-216), with the sink its wrapper
\* set up: info.str = str, info.remain = size, or d = buf.
kvprintf_entry(req) ==
  [ fmt |-> 1, percent |-> 0, ap |-> 1,
    stop |-> 0, retval |-> 0, num |-> 0,
    padc |-> Asc(" "), width |-> 0, dwidth |-> 0,
    lflag |-> 0, ladjust |-> 0, sharpflag |-> 0, neg |-> 0, sign |-> 0,
    dot |-> 0, bconv |-> 0, upper |-> 0, base |-> 0,
    cflag |-> 0, hflag |-> 0, jflag |-> 0, tflag |-> 0, zflag |-> 0,
    radix |-> IF req.api = "vsnrprintf" /\ ~(req.radix < 2 \/ req.radix > 36)
              THEN req.radix ELSE 10,
    func |-> IF req.api \in BoundedApis THEN "snprintf_func" ELSE "NULL",
    d |-> 0, str |-> 0,
    remain |-> IF req.api \in BoundedApis THEN SizeOf(req) ELSE 0,
    dest |-> << >>, emitted |-> << >>, stores |-> << >> ]

NoCall ==
  [ api |-> "none", fmtnull |-> FALSE, fmt |-> << >>, tail |-> << >>,
    args |-> << >>, size |-> 0, probe |-> FALSE, radix |-> 10, irq |-> FALSE ]

NoDirective == [ ch |-> NUL, pre |-> kvprintf_entry(NoCall), text |-> << >> ]

\* The caller makes its next call: the wrapper sets up the sink and enters
\* kvprintf.
Call ==
  /\ pc = "idle"
  /\ todo # << >>
  /\ Head(todo).api \in BoundedApis \cup UnboundedApis
  /\ call' = [Head(todo) EXCEPT !.size = SizeOf(Head(todo))]
  /\ todo' = Tail(todo)
  /\ kv' = kvprintf_entry(Head(todo))
  /\ last' = NoDirective
  /\ pc' = "scan"
  /\ UNCHANGED << results, syscalls, strings, ram, fts, hit, unmasked >>

\* ------------------------------------------------------------ kvprintf

\* ch = (unsigned char)*fmt++
Ch == FmtAt(kv.fmt)
Fetched == [kv EXCEPT !.fmt = @ + 1]

\* while ((ch = *fmt++) != '%' || stop) { ...; PCHAR(ch); }
CopyLiteral ==
  /\ pc = "scan"
  /\ Ch # Asc("%") \/ kv.stop = 1
  /\ Ch # NUL
  /\ kv' = PCHAR(Fetched, Ch)
  /\ UNCHANGED << todo, results, call, pc, last, syscalls, strings, ram, fts, hit, unmasked >>

\* if (ch == '\0') return (retval);
EndOfFormat ==
  /\ pc = "scan"
  /\ Ch # Asc("%") \/ kv.stop = 1
  /\ Ch = NUL
  /\ kv' = Fetched
  /\ pc' = "kvret"
  /\ UNCHANGED << todo, results, call, last, syscalls, strings, ram, fts, hit, unmasked >>

\* The while loop ends at a '%': percent = fmt - 1 and the flags are cleared.
BeginDirective ==
  /\ pc = "scan"
  /\ ~(Ch # Asc("%") \/ kv.stop = 1)
  /\ kv' = [Fetched EXCEPT !.percent = kv.fmt,
              !.lflag = 0, !.ladjust = 0, !.sharpflag = 0, !.neg = 0,
              !.sign = 0, !.dot = 0, !.bconv = 0, !.dwidth = 0, !.upper = 0,
              !.cflag = 0, !.hflag = 0, !.jflag = 0, !.tflag = 0, !.zflag = 0]
  /\ pc' = "reswitch"
  /\ UNCHANGED << todo, results, call, last, syscalls, strings, ram, fts, hit, unmasked >>

\* A case of the switch that ends in "goto reswitch".
Reswitch(k2) ==
  /\ pc = "reswitch"
  /\ kv' = k2
  /\ UNCHANGED << todo, results, call, pc, last, syscalls, strings, ram, fts, hit, unmasked >>

CaseDot   == Ch = Asc(".") /\ Reswitch([Fetched EXCEPT !.dot = 1])
CaseSharp == Ch = Asc("#") /\ Reswitch([Fetched EXCEPT !.sharpflag = 1])
CasePlus  == Ch = Asc("+") /\ Reswitch([Fetched EXCEPT !.sign = 1])
CaseMinus == Ch = Asc("-") /\ Reswitch([Fetched EXCEPT !.ladjust = 1])

\* width = va_arg(ap, int); if (width < 0) { ladjust = !ladjust; width =
\* -width; }  or, after a '.', dwidth = va_arg(ap, int);
star(k, w) ==
  IF k.dot = 0
  THEN IF w < 0 THEN [k EXCEPT !.ladjust = 1 - k.ladjust, !.width = Neg32(w)]
       ELSE [k EXCEPT !.width = w]
  ELSE [k EXCEPT !.dwidth = w]

\* case '*'
CaseStar ==
  /\ Ch = Asc("*")
  /\ HasArgs(kv, << {"int"} >>)
  /\ Reswitch(star(va_next(Fetched), va_arg(kv).i))

IsDigit(c) == c >= Asc("0") /\ c <= Asc("9")

\* for (n = 0;; ++fmt) { n = n * 10 + ch - '0'; ch = *fmt; if (ch < '0' ||
\* ch > '9') break; }  ->  << n, fmt >>
RECURSIVE digits_loop(_, _, _)
digits_loop(n, ch, fmt) ==
  IF IsDigit(FmtAt(fmt)) THEN digits_loop(n * 10 + ch - Asc("0"), FmtAt(fmt), fmt + 1)
  ELSE << n * 10 + ch - Asc("0"), fmt >>

\* if (dot) dwidth = n; else width = n;
digits_set(k, r) ==
  IF k.dot = 1 THEN [k EXCEPT !.fmt = r[2], !.dwidth = r[1]]
  ELSE [k EXCEPT !.fmt = r[2], !.width = r[1]]

\* case '1' ... '9' (and '0' after a '.'): a literal width or precision
Digits(k) == digits_set(k, digits_loop(0, Ch, k.fmt))

\* case '0': the zero-pad flag, unless a '.' came before
CaseZero ==
  /\ Ch = Asc("0")
  /\ Reswitch(IF kv.dot = 0 THEN [Fetched EXCEPT !.padc = Asc("0")] ELSE Digits(Fetched))

CaseDigit ==
  /\ Ch \in {Asc("1"), Asc("2"), Asc("3"), Asc("4"), Asc("5"), Asc("6"), Asc("7"),
             Asc("8"), Asc("9")}
  /\ Reswitch(Digits(Fetched))

CaseH ==
  /\ Ch = Asc("h")
  /\ Reswitch(IF kv.hflag = 1 THEN [Fetched EXCEPT !.hflag = 0, !.cflag = 1]
              ELSE [Fetched EXCEPT !.hflag = 1])
CaseJ == Ch = Asc("j") /\ Reswitch([Fetched EXCEPT !.jflag = 1])
CaseL == Ch = Asc("l") /\ Reswitch([Fetched EXCEPT !.lflag = 1])
CaseT == Ch = Asc("t") /\ Reswitch([Fetched EXCEPT !.tflag = 1])
CaseZ == Ch = Asc("z") /\ Reswitch([Fetched EXCEPT !.zflag = 1])

\* A case of the switch that ends in "break": the for (;;) loop starts over
\* with padc = ' ' and width = 0.
Convert(k2) ==
  /\ pc = "reswitch"
  /\ kv' = [k2 EXCEPT !.padc = Asc(" "), !.width = 0]
  /\ last' = [ ch |-> Ch, pre |-> kv,
               text |-> SubSeq(k2.emitted, Len(kv.emitted) + 1, Len(k2.emitted)) ]
  /\ pc' = "scan"
  /\ UNCHANGED << todo, results, call, syscalls, strings, ram, fts, hit, unmasked >>

\* case '%'
CasePercent ==
  /\ Ch = Asc("%")
  /\ Convert(PCHAR(Fetched, Ch))

\* case 'c'
CaseC ==
  /\ Ch = Asc("c")
  /\ HasArgs(kv, << {"int"} >>)
  /\ LET width == kv.width - 1
         k1 == IF kv.ladjust = 0 /\ width > 0
               THEN PCHARS(Fetched, Rep(kv.padc, width)) ELSE Fetched
         k2 == PCHAR(va_next(k1), va_arg(kv).i)
         k3 == IF kv.ladjust = 1 /\ width > 0
               THEN PCHARS(k2, Rep(kv.padc, width)) ELSE k2
     IN Convert(k3)

\* The dump loop with the separator written after every byte, the last
\* included.
RECURSIVE hexdump_trailing(_, _, _, _, _)
hexdump_trailing(k, up, p, i, width) ==
  IF width = 0 THEN k
  ELSE LET k1 == PCHARS(k, << hex2ascii(up[i + 1] \div 16), hex2ascii(up[i + 1] % 16) >>)
           k2 == PCHARS(k1, p)
       IN IF k2.retval # k.retval THEN hexdump_trailing(k2, up, p, i + 1, width - 1) ELSE k2

\* while (width--) { two hex digits of *up++; if (width) the separator }
RECURSIVE hexdump(_, _, _, _, _)
hexdump(k, up, p, i, width) ==
  IF width = 0 THEN k
  ELSE LET k1 == PCHARS(k, << hex2ascii(up[i + 1] \div 16), hex2ascii(up[i + 1] % 16) >>)
           k2 == IF width - 1 # 0 THEN PCHARS(k1, p) ELSE k1
       IN IF k2.retval # k.retval THEN hexdump(k2, up, p, i + 1, width - 1) ELSE k2

\* case 'D': the caller's buffer holds the bytes the dump reads
CaseD ==
  /\ Ch = Asc("D")
  /\ HasArgs(kv, << {"bytes"}, {"str"} >>)
  /\ LET up == va_arg(kv).s
         p  == va_arg(va_next(kv)).s
         width == IF kv.width = 0 THEN 16 ELSE kv.width
     IN /\ width >= 0
        /\ Len(up) >= width
        /\ Convert(hexdump(va_next(va_next(Fetched)), up, p, 0, width))

\* case 'n': retval is stored through the next argument, as the type the
\* length flags select
CaseN ==
  /\ Ch = Asc("n")
  /\ HasArgs(kv, << {"ptr"} >>)
  /\ LET type == IF kv.jflag = 1 THEN "int" ELSE IF kv.lflag = 1 THEN "long"
                 ELSE IF kv.zflag = 1 THEN "size_t" ELSE IF kv.hflag = 1 THEN "short"
                 ELSE IF kv.cflag = 1 THEN "char" ELSE "int"
         val  == IF type = "short" THEN CastShort(kv.retval)
                 ELSE IF type = "char" THEN CastChar(kv.retval) ELSE kv.retval
     IN Convert([va_next(Fetched) EXCEPT
                   !.stores = Append(@, [arg |-> kv.ap, type |-> type, val |-> val])])

\* The loop running one character past the precision
RECURSIVE strnlen_loop_over(_, _, _)
strnlen_loop_over(p, n, dwidth) ==
  IF n <= dwidth /\ At(p, n) # NUL THEN strnlen_loop_over(p, n + 1, dwidth) ELSE n

\* for (n = 0; n < dwidth && p[n]; n++) continue;
RECURSIVE strnlen_loop(_, _, _)
strnlen_loop(p, n, dwidth) ==
  IF n < dwidth /\ At(p, n) # NUL THEN strnlen_loop(p, n + 1, dwidth) ELSE n

\* case 's'
CaseS ==
  /\ Ch = Asc("s")
  /\ HasArgs(kv, << {"str", "null"} >>)
  /\ LET p == IF va_arg(kv).t = "null" THEN Str(<< "(", "n", "u", "l", "l", ")" >>)
              ELSE va_arg(kv).s
         n == IF kv.dot = 0 THEN strlen(p) ELSE strnlen_loop(p, 0, kv.dwidth)
         width == kv.width - n
         k1 == IF kv.ladjust = 0 /\ width > 0
               THEN PCHARS(va_next(Fetched), Rep(kv.padc, width)) ELSE va_next(Fetched)
         k2 == PCHARS(k1, SubSeq(p, 1, n))
         k3 == IF kv.ladjust = 1 /\ width > 0
               THEN PCHARS(k2, Rep(kv.padc, width)) ELSE k2
     IN Convert(k3)

\* The %b loop over the descriptor q, from its byte i on: for each group, the
\* name is printed when the group's bit is set in num, after '<' for the first
\* name printed and ',' for the others.
RECURSIVE bconv_name(_, _, _)
bconv_name(k, q, i) ==
  IF At(q, i) > Asc(" ") THEN bconv_name(PCHAR(k, At(q, i)), q, i + 1) ELSE << k, i >>

RECURSIVE bconv_skip(_, _)
bconv_skip(q, i) == IF At(q, i) > Asc(" ") THEN bconv_skip(q, i + 1) ELSE i

RECURSIVE bconv_loop(_, _, _, _, _)
bconv_loop(k, q, i, num, tmp) ==
  IF At(q, i) = NUL THEN k
  ELSE LET n == At(q, i)
       IN IF BitSet(num, n)
          THEN LET r == bconv_name(PCHAR(k, IF k.retval # tmp THEN Asc(",") ELSE Asc("<")),
                                   q, i + 1)
               IN bconv_loop(r[1], q, r[2], num, tmp)
          ELSE bconv_loop(k, q, bconv_skip(q, i + 1), num, tmp)

\* if (sign && (int)num < 0) { neg = 1; num = -(int)num; }
\* the sign noted and the value left as it is
number_sign_kept(k) ==
  IF k.sign = 1 /\ k.num < 0 THEN [k EXCEPT !.neg = 1] ELSE k

number_sign(k) ==
  IF k.sign = 1 /\ k.num < 0 THEN [k EXCEPT !.neg = 1, !.num = Neg32(k.num)] ELSE k

\* tmp after lines 433-448: the length of the "0" / "0x" prefix, plus one
\* for the sign
number_tmp(k) ==
  (IF k.sharpflag = 1 /\ k.num # 0
   THEN (IF k.base = 8 THEN 1 ELSE IF k.base = 16 THEN 2 ELSE 0) ELSE 0)
  + (IF k.neg = 1 THEN 1 ELSE 0)

\* The widths with the precision left out of the field's length
number_widths_short(k, n, tmp) ==
  LET dwidth == IF k.ladjust = 0 /\ k.padc = Asc("0") THEN k.width - tmp ELSE k.dwidth
  IN  [k EXCEPT !.width = @ - (tmp + n), !.dwidth = dwidth - n]

\* The widths with the zero fill taking the sign's and the prefix's room too
\* (dwidth = width)
number_widths_wide(k, n, tmp) ==
  LET dwidth == IF k.ladjust = 0 /\ k.padc = Asc("0") THEN k.width ELSE k.dwidth
  IN  [k EXCEPT !.width = @ - (tmp + imax(dwidth, n)), !.dwidth = dwidth - n]

\* if (!ladjust && padc == '0') dwidth = width - tmp;
\* width -= tmp + imax(dwidth, n); dwidth -= n;
number_widths(k, n, tmp) ==
  LET dwidth == IF k.ladjust = 0 /\ k.padc = Asc("0") THEN k.width - tmp ELSE k.dwidth
  IN  [k EXCEPT !.width = @ - (tmp + imax(dwidth, n)), !.dwidth = dwidth - n]

\* if (!ladjust) while (width-- > 0) PCHAR(' ');
number_pad(k) ==
  IF k.ladjust = 0
  THEN [PCHARS(k, Rep(Asc(" "), k.width)) EXCEPT
          !.width = IF k.width > 0 THEN 0 - 1 ELSE k.width - 1]
  ELSE k

\* if (neg) PCHAR('-');
number_neg(k) == IF k.neg = 1 THEN PCHAR(k, Asc("-")) ELSE k

\* The prefix of base 8 alone.
number_sharp_octal(k) ==
  IF k.sharpflag = 1 /\ k.num # 0 /\ k.base = 8 THEN PCHAR(k, Asc("0")) ELSE k

\* if (sharpflag && num != 0) { "0" for base 8, "0x" for base 16 }
number_sharp(k) ==
  IF k.sharpflag = 1 /\ k.num # 0
  THEN IF k.base = 8 THEN PCHAR(k, Asc("0"))
       ELSE IF k.base = 16 THEN PCHAR(PCHAR(k, Asc("0")), Asc("x"))
       ELSE k
  ELSE k

\* while (dwidth-- > 0) PCHAR('0');
number_zeros(k) ==
  [PCHARS(k, Rep(Asc("0"), k.dwidth)) EXCEPT
     !.dwidth = IF k.dwidth > 0 THEN 0 - 1 ELSE k.dwidth - 1]

\* while (*p) PCHAR(*p--): nbuf from its last element down to nbuf[1]
number_digits(k, nbuf) == PCHARS(k, Reverse(nbuf))

\* if (retval != tmp) { PCHAR('>'); width -= retval - tmp; }
bconv_close(k, tmp) ==
  IF k.retval # tmp
  THEN [PCHAR(k, Asc(">")) EXCEPT !.width = @ - (k.retval + 1 - tmp)]
  ELSE k

\* if (bconv && num != 0) { tmp = retval; ... }
number_bconv(k, q) ==
  IF k.bconv = 1 /\ k.num # 0
  THEN bconv_close(bconv_loop(k, q, 0, k.num, k.retval), k.retval)
  ELSE k

\* if (ladjust) while (width-- > 0) PCHAR(' ');
number_ladjust(k) ==
  IF k.ladjust = 1
  THEN [PCHARS(k, Rep(Asc(" "), k.width)) EXCEPT
          !.width = IF k.width > 0 THEN 0 - 1 ELSE k.width - 1]
  ELSE k

\* p = ksprintn(nbuf, num, base, &n, upper) and the output that follows
number_out(k, q, nbuf) ==
  number_ladjust(number_bconv(number_digits(number_zeros(number_sharp(number_neg(
    number_pad(number_widths(k, Len(nbuf), number_tmp(k)))))), nbuf), q))

\* number: (lines 427-497), on the state handle_sign / handle_nosign left;
\* q is the %b descriptor after its base byte.
number_conv(k, q) == number_out(k, q, ksprintn(k.num, k.base, k.upper))

number(k, q) == number_conv(number_sign(k), q)

\* handle_nosign without its "sign = 0"
handle_nosign_signed(k) ==
  LET v == va_arg(k).i
  IN  [va_next(k) EXCEPT
         !.num = IF k.jflag = 1 \/ k.tflag = 1 \/ k.lflag = 1 \/ k.zflag = 1 THEN v
                 ELSE IF k.hflag = 1 THEN CastUShort(v)
                 ELSE IF k.cflag = 1 THEN CastUChar(v) ELSE v]

\* handle_nosign: (lines 391-411)
handle_nosign(k) ==
  LET v == va_arg(k).i
  IN  [va_next(k) EXCEPT !.sign = 0,
         !.num = IF k.jflag = 1 \/ k.tflag = 1 \/ k.lflag = 1 \/ k.zflag = 1 THEN v
                 ELSE IF k.hflag = 1 THEN CastUShort(v)
                 ELSE IF k.cflag = 1 THEN CastUChar(v) ELSE v]

\* handle_sign: (lines 412-426)
handle_sign(k) ==
  LET v == va_arg(k).i
  IN  [va_next(k) EXCEPT
         !.num = IF k.jflag = 1 \/ k.tflag = 1 \/ k.lflag = 1 \/ k.zflag = 1 THEN v
                 ELSE IF k.hflag = 1 THEN CastShort(v)
                 ELSE IF k.cflag = 1 THEN CastChar(v) ELSE v]

\* case 'b': the value, then a descriptor whose first byte is the base
CaseB ==
  /\ Ch = Asc("b")
  /\ HasArgs(kv, << {"int"}, {"str"} >>)
  /\ LET k1 == handle_nosign([Fetched EXCEPT !.ladjust = 1, !.bconv = 1])
         q  == va_arg(k1).s
     IN /\ q # << >>
        /\ Convert(number([va_next(k1) EXCEPT !.base = Head(q)], Tail(q)))

\* case 'd': case 'i':
CaseDI ==
  /\ Ch \in {Asc("d"), Asc("i")}
  /\ HasArgs(kv, << {"int"} >>)
  /\ Convert(number(handle_sign([Fetched EXCEPT !.base = 10, !.sign = 1]), << >>))

\* case 'o'
CaseO ==
  /\ Ch = Asc("o")
  /\ HasArgs(kv, << {"int"} >>)
  /\ Convert(number(handle_nosign([Fetched EXCEPT !.base = 8]), << >>))

\* case 'p': the pointer's value is the argument's word
CaseP ==
  /\ Ch = Asc("p")
  /\ HasArgs(kv, << {"int", "ptr"} >>)
  /\ Convert(number([va_next(Fetched) EXCEPT !.base = 16,
                       !.sharpflag = IF kv.width = 0 THEN 1 ELSE 0,
                       !.sign = 0, !.num = va_arg(kv).i], << >>))

\* case 'r'
CaseR ==
  /\ Ch = Asc("r")
  /\ HasArgs(kv, << {"int"} >>)
  /\ LET k1 == [Fetched EXCEPT !.base = kv.radix]
     IN Convert(number(IF kv.sign = 1 THEN handle_sign(k1) ELSE handle_nosign(k1), << >>))

\* case 'u'
CaseU ==
  /\ Ch = Asc("u")
  /\ HasArgs(kv, << {"int"} >>)
  /\ Convert(number(handle_nosign([Fetched EXCEPT !.base = 10]), << >>))

\* case 'X': case 'x':
CaseX ==
  /\ Ch \in {Asc("X"), Asc("x")}
  /\ HasArgs(kv, << {"int"} >>)
  /\ Convert(number(handle_nosign([Fetched EXCEPT !.base = 16,
                       !.upper = IF Ch = Asc("X") THEN 1 ELSE 0]), << >>))

\* case 'y'
CaseY ==
  /\ Ch = Asc("y")
  /\ HasArgs(kv, << {"int"} >>)
  /\ Convert(number(handle_sign([Fetched EXCEPT !.base = 16, !.sign = 1]), << >>))

\* The characters the switch has a case for.
CaseChars ==
  { Asc(c) : c \in {".", "#", "+", "-", "%", "*", "0", "1", "2", "3", "4", "5",
                    "6", "7", "8", "9", "b", "c", "D", "d", "i", "h", "j", "l",
                    "n", "o", "p", "r", "s", "t", "u", "X", "x", "y", "z"} }

\* while (percent < fmt) PCHAR(*percent++): the bytes from the '%' to the
\* one the switch has just read
echo(k, percent, fmt) ==
  PCHARS(k, [j \in 1..(fmt - percent) |-> FmtAt(percent + j - 1)])

\* The default case without "stop = 1"
default_once(k, percent, fmt) == [echo(k, percent, fmt) EXCEPT !.percent = fmt]

\* default: while (percent < fmt) PCHAR(*percent++); stop = 1;
default(k, percent, fmt) == [echo(k, percent, fmt) EXCEPT !.percent = fmt, !.stop = 1]

CaseDefault ==
  /\ Ch \notin CaseChars
  /\ Convert(default(Fetched, kv.percent, kv.fmt + 1))

\* ------------------------------------------------------------ wrappers

\* What a returned call leaves behind: its return value, the destination
\* memory, and how far kvprintf got.
Returned(k) ==
  [ api |-> call.api, fmtnull |-> call.fmtnull, fmt |-> call.fmt, tail |-> call.tail,
    args |-> call.args, size |-> call.size, radix |-> call.radix,
    retval |-> k.retval, dest |-> k.dest, emitted |-> k.emitted,
    nargs |-> k.ap - 1, stores |-> k.stores, stop |-> k.stop, fmtend |-> k.fmt ]

Return(k) ==
  /\ kv' = k
  /\ results' = Append(results, Returned(k))
  /\ pc' = "idle"
  /\ UNCHANGED << todo, call, last >>

\* The terminator stored whatever room is left
terminate_always(k) == [k EXCEPT !.dest = Store(@, k.str, NUL), !.str = @ + 1]

\* if (info.remain >= 1) *info.str++ = '\0';
terminate(k) ==
  IF k.remain >= 1 THEN [k EXCEPT !.dest = Store(@, k.str, NUL), !.str = @ + 1] ELSE k

\* vsnprintf after kvprintf has returned (snprintf returns what it returns)
vsnprintf ==
  /\ pc = "kvret"
  /\ call.api \in {"snprintf", "vsnprintf"}
  /\ Return(terminate(kv))
  /\ UNCHANGED << syscalls, strings, ram, fts, hit, unmasked >>

\* vsnrprintf after kvprintf has returned
vsnrprintf ==
  /\ pc = "kvret"
  /\ call.api = "vsnrprintf"
  /\ Return(terminate(kv))
  /\ UNCHANGED << syscalls, strings, ram, fts, hit, unmasked >>

\* buf[retval] = '\0';
sprintf ==
  /\ pc = "kvret"
  /\ call.api = "sprintf"
  /\ Return([kv EXCEPT !.dest = Store(@, kv.retval, NUL)])
  /\ UNCHANGED << syscalls, strings, ram, fts, hit, unmasked >>

\* vsprintf after kvprintf has returned; printf and vprintf call it on
\* print_buffer and go on to the transport write
vsprintf ==
  /\ pc = "kvret"
  /\ call.api \in {"vsprintf", "printf", "vprintf"}
  /\ LET k == [kv EXCEPT !.dest = Store(@, kv.retval, NUL)]
     IN IF call.api = "vsprintf"
        THEN Return(k)
        ELSE /\ kv' = k
             /\ pc' = "write"
             /\ UNCHANGED << todo, results, call, last >>
  /\ UNCHANGED << syscalls, strings, ram, fts, hit, unmasked >>

\* What dcloadsyscall may hand back for a write of len bytes: a failure, or
\* the number of bytes the host took.
TransportResults(len) == { 0 - 1, 0, len }

\* The transport call as one log entry
Transport(buf, len, ret) ==
  [ nr |-> DCLOAD_WRITE, fd |-> 1, buf |-> buf, len |-> len, ret |-> ret ]

\* printf returning what the transport call returned
printf_status ==
  /\ pc = "write"
  /\ call.api \in {"printf", "vprintf"}
  /\ ~call.irq
  /\ \E ret \in TransportResults(kv.retval + 1) :
       /\ syscalls' = Append(syscalls, Transport(kv.dest, kv.retval + 1, ret))
       /\ Return([kv EXCEPT !.retval = ret])
  /\ UNCHANGED << strings, ram, fts, hit, unmasked >>

\* dcloadsyscall(DCLOAD_WRITE, 1, print_buffer, retval + 1); return (retval);
printf ==
  /\ pc = "write"
  /\ call.api \in {"printf", "vprintf"}
  /\ ~call.irq
  /\ \E ret \in TransportResults(kv.retval + 1) :
       /\ syscalls' = Append(syscalls, Transport(kv.dest, kv.retval + 1, ret))
       /\ Return(kv)
  /\ UNCHANGED << strings, ram, fts, hit, unmasked >>

\* ------------------------------------------------------------ simple_print calls

SimpleApis == {"hex_to_string", "uint_to_string", "int_to_string", "float_to_string"}

\* The memory a call starts on: the static buffers as the calls before left
\* them, and bytes of unknown content (req.junk) in the caller's array and
\* after each static buffer.
Entered(req) ==
  Fresh([a \in 1..MemSize |-> IF a - 1 \in StaticBytes THEN ram[a] ELSE req.junk],
        req.junk)

\* What a returned call leaves behind.
Made(req, m) ==
  [ api |-> req.api, in |-> req.in, digits |-> req.digits, junk |-> req.junk,
    mem |-> m.mem, rd |-> m.rd, wr |-> m.wr, stale |-> m.stale, idx |-> m.idx,
    ret |-> m.ret ]

Pending(api) == pc = "idle" /\ todo # << >> /\ Head(todo).api = api

Finish(m) ==
  /\ ram' = m.mem
  /\ strings' = Append(strings, Made(Head(todo), m))
  /\ todo' = Tail(todo)
  /\ UNCHANGED << results, call, pc, kv, last, syscalls, fts, hit, unmasked >>

HexToString ==
  /\ Pending("hex_to_string")
  /\ Finish(hex_to_string(Entered(Head(todo)), Head(todo).in, test_array))

UintToString ==
  /\ Pending("uint_to_string")
  /\ Finish(uint_to_string(Entered(Head(todo)), Head(todo).in, test_array))

IntToString ==
  /\ Pending("int_to_string")
  /\ Finish(int_to_string(Entered(Head(todo)), Head(todo).in, test_array))

FloatToString ==
  /\ Pending("float_to_string")
  /\ ~Head(todo).irq
  /\ Finish(float_to_string(Entered(Head(todo)), Head(todo).in, Head(todo).digits,
                            test_array))

\* ------------------------------------------------------------ interrupts

\* The NUL-terminated text at address a of a memory.
RECURSIVE TextAt(_, _)
TextAt(mem, a) == IF mem[a + 1] = NUL THEN << >> ELSE << mem[a + 1] >> \o TextAt(mem, a + 1)

\* No unmasked float_to_string call in progress, and no handler call made.
NoFloat ==
  [ stage |-> 0,
    req |-> [ api |-> "none", in |-> 0, digits |-> 0, junk |-> 0, irq |-> FALSE ],
    m |-> Fresh(<< >>, 0) ]
NoHandler == [ api |-> "none", at |-> 0, in |-> 0, digits |-> 0, text |-> << >> ]

\* The calls an interrupt handler makes: float_to_string of a negative
\* number or of an infinity, printf of a short text or of an empty one.
HandlerFloats ==
  { [ in |-> 0 - 8388609, digits |-> 3 ], [ in |-> 255 * 8388608, digits |-> 3 ] }
HandlerTexts == { Str(<< "i", "r", "q" >>), << >> }

\* What a call made with interrupts unmasked leaves behind: its text (for
\* printf the bytes handed to the transport), the characters it rendered,
\* and the handler call that interrupted it.
Interruptible(req, text, emitted) ==
  [ api |-> req.api, in |-> IF req.api = "float_to_string" THEN req.in ELSE 0,
    digits |-> IF req.api = "float_to_string" THEN req.digits ELSE 0,
    text |-> text, emitted |-> emitted, by |-> hit ]

\* float_to_string entered with interrupts unmasked
FloatEnter ==
  /\ Pending("float_to_string")
  /\ Head(todo).irq
  /\ fts' = [ stage |-> 1, req |-> Head(todo), m |-> Entered(Head(todo)) ]
  /\ todo' = Tail(todo)
  /\ pc' = "float"
  /\ UNCHANGED << results, call, kv, last, syscalls, strings, ram, hit, unmasked >>

\* the next step of float_to_string; the last one returns
FloatStep ==
  /\ pc = "float"
  /\ LET m == float_step(fts.m, fts.stage, fts.req.in, fts.req.digits, test_array)
     IN  IF float_next(fts.stage, fts.req.in) = 5
         THEN /\ unmasked' = Append(unmasked,
                                    Interruptible(fts.req, TextAt(m.mem, test_array), << >>))
              /\ ram' = m.mem
              /\ fts' = NoFloat
              /\ hit' = NoHandler
              /\ pc' = "idle"
         ELSE /\ fts' = [fts EXCEPT !.m = m, !.stage = float_next(fts.stage, fts.req.in)]
              /\ UNCHANGED << ram, hit, unmasked, pc >>
  /\ UNCHANGED << todo, results, call, kv, last, syscalls, strings >>

\* an interrupt between two steps of float_to_string, whose handler calls
\* float_to_string itself and returns
FloatInterrupt ==
  /\ pc = "float"
  /\ fts.stage \in 2..4
  /\ hit = NoHandler
  /\ \E h \in HandlerFloats :
       /\ fts' = [fts EXCEPT !.m = Handled(fts.m, h)]
       /\ hit' = [ api |-> "float_to_string", at |-> fts.stage, in |-> h.in,
                   digits |-> h.digits,
                   text |-> TextAt(float_to_string(Fresh(fts.m.mem, fts.m.junk), h.in,
                                                   h.digits, test_array).mem,
                                   test_array) ]
  /\ UNCHANGED << todo, results, call, pc, kv, last, syscalls, strings, ram, unmasked >>

\* print_buffer after a handler's printf of a text without directives: the
\* text from print_buffer[0] and its terminator
Overlaid(dest, text) ==
  Store(PCHARS([kvprintf_entry(NoCall) EXCEPT !.dest = dest], text).dest, Len(text), NUL)

\* How far printf has got: 1 while kvprintf renders, 2 once it has
\* returned, 3 once vsprintf has stored the terminator.
Reached == IF pc = "scan" THEN 1 ELSE IF pc = "kvret" THEN 2 ELSE 3

\* an interrupt between two steps of printf or vprintf, whose handler calls
\* printf itself and returns
PrintfInterrupt ==
  /\ pc \in {"scan", "kvret", "write"}
  /\ call.api \in {"printf", "vprintf"}
  /\ call.irq
  /\ hit = NoHandler
  /\ \E text \in HandlerTexts :
       /\ kv' = [kv EXCEPT !.dest = Overlaid(kv.dest, text)]
       /\ hit' = [ api |-> "printf", at |-> Reached, in |-> 0, digits |-> 0,
                   text |-> text ]
  /\ UNCHANGED << todo, results, call, pc, last, syscalls, strings, ram, fts, unmasked >>

\* printf and vprintf with interrupts unmasked:
\* dcloadsyscall(DCLOAD_WRITE, 1, print_buffer, retval + 1); return (retval);
PrintfUnmasked ==
  /\ pc = "write"
  /\ call.api \in {"printf", "vprintf"}
  /\ call.irq
  /\ unmasked' = Append(unmasked,
                        Interruptible(call, SubSeq(kv.dest, 1, kv.retval + 1), kv.emitted))
  /\ hit' = NoHandler
  /\ pc' = "idle"
  /\ UNCHANGED << todo, results, call, kv, last, syscalls, strings, ram, fts >>

\* ------------------------------------------------------------ next-state

Next ==
  \/ Call
  \/ CopyLiteral \/ EndOfFormat \/ BeginDirective
  \/ CaseDot \/ CaseSharp \/ CasePlus \/ CaseMinus \/ CasePercent \/ CaseStar
  \/ CaseZero \/ CaseDigit
  \/ CaseB \/ CaseC \/ CaseD \/ CaseDI
  \/ CaseH \/ CaseJ \/ CaseL \/ CaseN \/ CaseO \/ CaseP \/ CaseR \/ CaseS
  \/ CaseT \/ CaseU \/ CaseX \/ CaseY \/ CaseZ
  \/ CaseDefault
  \/ vsnprintf \/ vsnrprintf \/ sprintf \/ vsprintf \/ printf
  \/ HexToString \/ UintToString \/ IntToString \/ FloatToString
  \/ FloatEnter \/ FloatStep \/ FloatInterrupt
  \/ PrintfInterrupt \/ PrintfUnmasked

\* The state before the caller's first call.
Start(calls) ==
  /\ todo \in calls
  /\ results = << >>
  /\ call = NoCall
  /\ pc = "idle"
  /\ kv = kvprintf_entry(NoCall)
  /\ last = NoDirective
  /\ syscalls = << >>
  /\ strings = << >>
  /\ ram = Rep(0, MemSize)
  /\ fts = NoFloat
  /\ hit = NoHandler
  /\ unmasked = << >>

\* ------------------------------------------------------------ callers

Req(api, fmt, args, size, radix) ==
  [ api |-> api, fmtnull |-> FALSE, fmt |-> fmt, tail |-> << >>,
    args |-> args, size |-> size, probe |-> FALSE, radix |-> radix, irq |-> FALSE ]

\* A call of a simple_print function: its number (a float as its bits), the
\* digits asked for, and what unknown bytes read as.
SimpleReq(api, in, digits, junk) ==
  [ api |-> api, in |-> in, digits |-> digits, junk |-> junk, irq |-> FALSE ]

\* The same call made with interrupts unmasked.
Unmasked(req) == [req EXCEPT !.irq = TRUE]

\* A caller that goes through every case of the switch, every wrapper and
\* every simple_print function.
EveryCase ==
  << Req("sprintf",
         Str(<< "a", "%", "%", "%", "c", "%", "s", "%", "n", "%", "2", "D",
                "%", "b", "%", "d", "%", "o", "%", "p", "%", "r", "%", "u",
                "%", "x", "%", "y", "%", "q" >>),
         << AInt(65), AStr(Str(<< "a" >>)), APtr(0), ABytes(<< 1, 255 >>),
            AStr(Str(<< ":" >>)), AInt(3), AStr(<< 8, 2, 66, 1, 65 >>),
            AInt(0 - 5), AInt(8), APtr(4096), AInt(7), AInt(7), AInt(255),
            AInt(0 - 1) >>, 0, 10),
     Req("snprintf", Str(<< "%", "#", "+", "-", "0", "*", ".", "2", "h", "h",
                            "j", "l", "t", "z", "d" >>),
         << AInt(6), AInt(42) >>, 4, 10),
     Req("vsnprintf", Str(<< "%", ".", "0", "d" >>), << AInt(1) >>, 1, 10),
     Req("vsnrprintf", Str(<< "%", "r" >>), << AInt(255) >>, 8, 16),
     Req("vsprintf", Str(<< "a" >>), << >>, 0, 10),
     Req("printf", Str(<< "a" >>), << >>, 0, 10),
     [Req("vprintf", << >>, << >>, 0, 10) EXCEPT !.fmtnull = TRUE],
     SimpleReq("hex_to_string", 1024, 0, 0),
     SimpleReq("uint_to_string", 1024, 0, 0),
     SimpleReq("int_to_string", 0 - 2, 0, 0),
     SimpleReq("float_to_string", 1084227584, 3, 0),
     Unmasked(SimpleReq("float_to_string", 1084227584, 3, 0)),
     Unmasked(Req("printf", Str(<< "a", "b" >>), << >>, 0, 10)) >>

\* A piece of a format with the arguments its directive takes.
Piece(text, args) == [ text |-> text, args |-> args ]
Join(p, q) == Piece(p.text \o q.text, p.args \o q.args)
NoPiece == Piece(<< >>, << >>)

\* The formats the callers build: at most MaxPieces pieces of literal text,
\* supported directives and an unsupported one, then possibly a directive
\* that the terminating NUL cuts short.
MaxPieces == 2
MaxSize == 4

Pieces ==
  { Piece(Str(<< "a" >>), << >>),
    Piece(Str(<< "%", "%" >>), << >>),
    Piece(Str(<< "%", "d" >>), << AInt(0 - 12) >>),
    Piece(Str(<< "%", "r" >>), << AInt(255) >>),
    Piece(Str(<< "%", "s" >>), << AStr(Str(<< "h", "i" >>)) >>),
    Piece(Str(<< "%", "q" >>), << >>) }

CutShort ==
  { Piece(Str(<< "%" >>), << >>),
    Piece(Str(<< "%", "-", "5" >>), << >>),
    Piece(Str(<< "%", "l" >>), << >>) }

RECURSIVE Bodies(_)
Bodies(n) ==
  IF n = 0 THEN { NoPiece }
  ELSE LET b == Bodies(n - 1) IN b \cup { Join(x, p) : x \in b, p \in Pieces }

\* The bytes that follow the format's terminator in memory.
Tails == { << >>, Str(<< "Z" >>) }

Formats ==
  { [ fmt |-> b.text, tail |-> << >>, args |-> b.args ] : b \in Bodies(MaxPieces) }
  \cup { [ fmt |-> b.text \o e.text, tail |-> t, args |-> b.args ] :
           b \in Bodies(MaxPieces - 1), e \in CutShort, t \in Tails }

\* The bounded entry points with the default radix they run under.
BoundedCalls == { << "vsnprintf", 10 >>, << "snprintf", 10 >>, << "vsnrprintf", 16 >> }

\* A caller that renders into a buffer of some size, then into one of the
\* size the first call asked for, then without a bound.
Sized(f, b, size) == [Req(b[1], f.fmt, f.args, size, b[2]) EXCEPT !.tail = f.tail]
Resize(f, b, size) ==
  << Sized(f, b, size),
     [Sized(f, b, 0) EXCEPT !.probe = TRUE],
     [Req("vsprintf", f.fmt, f.args, 0, 10) EXCEPT !.tail = f.tail] >>

Resizers == { Resize(f, b, size) : f \in Formats, b \in BoundedCalls, size \in 0..MaxSize }

\* A caller that renders a format, then the same format followed by an
\* unsupported directive and more text, with the same arguments.
Unsupported ==
  { Str(<< "%", "q" >>),
    Str(<< "%", "-", "5", ".", "2", "l", "k" >>),
    Str(<< "%", "+", "#", "0", "e" >>) }

Rests ==
  { << >>, Str(<< "x" >>), Str(<< "%", "d" >>), Str(<< "%", "%", "%", "s" >>) }

Spare == << AInt(7), AStr(Str(<< "n", "o" >>)) >>

Extend(b, u, rest) ==
  << Req("sprintf", b.text, b.args \o Spare, 0, 10),
     Req("sprintf", b.text \o u \o rest, b.args \o Spare, 0, 10) >>

Extenders ==
  { Extend(b, u, rest) : b \in Bodies(MaxPieces), u \in Unsupported, rest \in Rests }

Init == Start({ EveryCase } \cup Resizers \cup Extenders)

Spec == Init /\ [][Next]_vars

\* ------------------------------------------------------------ console

\* A caller that prints a format on the console with printf or vprintf, then
\* renders the same format and arguments with vsprintf.
ConsoleApis == {"printf", "vprintf"}
Console(api, f) ==
  << [Req(api, f.fmt, f.args, 0, 10) EXCEPT !.tail = f.tail],
     [Req("vsprintf", f.fmt, f.args, 0, 10) EXCEPT !.tail = f.tail] >>

Consoles == { Console(api, f) : api \in ConsoleApis, f \in Formats }

InitConsole == Start({ EveryCase } \cup Consoles)

SpecConsole == InitConsole /\ [][Next]_vars

\* A caller that prints MaxFields zeroes on the console, each in a field of
\* 16 columns, and one more in a field that brings the text to one
\* character less than print_buffer holds, or to as many.
MaxFields == 63

Field(w) == << Asc("%"), Asc("0") + (w \div 10), Asc("0") + (w % 10), Asc("d") >>

Flood(w) ==
  [ j \in 1..(4 * (MaxFields + 1)) |->
      (IF j <= 4 * MaxFields THEN Field(16) ELSE Field(w))[((j - 1) % 4) + 1] ]

Overflowers ==
  { << Req(api, Flood(w), [j \in 1..(MaxFields + 1) |-> AInt(0)], 0, 10) >> :
      api \in ConsoleApis, w \in { 15, 16 } }

InitOverflow == Start({ EveryCase } \cup Overflowers)

SpecOverflow == InitOverflow /\ [][Next]_vars

\* ------------------------------------------------------------ numerals

\* The numbers the callers render: the small ones, and the powers of ten
\* and of two with their neighbours, as they are and with the top bit set.
MaxSmall == 20

RECURSIVE Pow10(_)
Pow10(n) == IF n = 0 THEN 1 ELSE 10 * Pow10(n - 1)

Positives ==
  (0 .. MaxSmall)
  \cup UNION { { Pow10(k) - 1, Pow10(k), Pow10(k) + 1 } : k \in 1..9 }
  \cup UNION { { Pow2(k) - 1, Pow2(k), Pow2(k) + 1 } : k \in 4..30 }
  \cup { 2147483647, 2147483646, 305419896, 1234567890, 2000000000 }

Numbers == Positives \cup { (0 - 1) - v : v \in Positives } \cup { 0 - v : v \in Positives }

\* What a byte of unknown content reads as.
Junk == { 0, Asc("Z"), 255 }

NumeralApis == {"hex_to_string", "uint_to_string", "int_to_string"}

\* A caller that renders a number, then possibly another.
Numerals ==
  { << SimpleReq(api, v, 0, j) >> : api \in NumeralApis, v \in Numbers, j \in Junk }
  \cup { << SimpleReq(a, v, 0, 255), SimpleReq(b, w, 0, 0) >> :
           a \in NumeralApis, b \in NumeralApis, v \in { 0 - 1, 1024 }, w \in { 0, INT_MIN } }

InitNumerals == Start({ EveryCase } \cup Numerals)

SpecNumerals == InitNumerals /\ [][Next]_vars

\* ------------------------------------------------------------ floats

\* The bits of a float given its sign, exponent field and mantissa.
FloatBits(sign, exponent, mantissa) ==
  (IF sign = 1 THEN INT_MIN ELSE 0) + exponent * 8388608 + mantissa

\* The digits the callers ask for: 1 to 3 are documented.
MaxDigits == 4

\* Mantissas chosen by their top nine bits, which are the ones
\* mantissa_to_string adds up, with the bits below them all clear, all set
\* or in between.
TopBits == { 0, 1, 2, 11, 255, 256, 257, 510, 511 }
LowBits == { 0, 1, 8192, 16383 }
Mantissas == { t * 16384 + l : t \in TopBits, l \in LowBits }
Exponents == { 0, 1, 126, 127, 128, 254, 255 }

\* A caller that renders a float with some number of digits.
Classifiers ==
  { << SimpleReq("float_to_string", FloatBits(s, e, f), d, j) >> :
      s \in 0..1, e \in Exponents, f \in Mantissas, d \in 0..MaxDigits, j \in { 0, 255 } }

\* A caller that renders a finite float with three digits: every value of
\* the mantissa's top nine bits.
Fractions ==
  { << SimpleReq("float_to_string", FloatBits(s, e, t * 16384 + l), 3, 0) >> :
      s \in 0..1, e \in { 0, 127 }, t \in 0..511, l \in { 0, 16383 } }

\* A caller that renders two floats one after the other.
Repeaters ==
  { << SimpleReq("float_to_string", FloatBits(1, 1, f), 3, 255),
       SimpleReq("float_to_string", FloatBits(0, e, g), d, 255) >> :
      f \in { 0, 8388607 }, e \in { 0, 254, 255 }, g \in { 0, 1, 4194304 }, d \in 1..2 }

\* A caller that renders a float, then another one that leaves a longer or
\* a shorter text in the temporaries (or leaves them alone), then the first
\* one again.
Revisited ==
  { [ in |-> FloatBits(s, e, f), digits |-> d ] :
      s \in 0..1, e \in { 0, 1, 127, 254 }, f \in { 0, 4194304, 8388607 }, d \in 1..3 }

Between ==
  { [ in |-> FloatBits(1, 0, 8388607), digits |-> MaxDigits ],
    [ in |-> FloatBits(1, 1, 1), digits |-> 3 ],
    [ in |-> FloatBits(0, 254, 4194304), digits |-> 1 ],
    [ in |-> FloatBits(0, 127, 0), digits |-> 0 ],
    [ in |-> FloatBits(0, 255, 1), digits |-> 3 ] }

Revisitors ==
  { << SimpleReq("float_to_string", x.in, x.digits, j),
       SimpleReq("float_to_string", y.in, y.digits, j),
       SimpleReq("float_to_string", x.in, x.digits, j) >> :
      x \in Revisited, y \in Between, j \in { 0, Asc("Z") } }

InitFloats ==
  Start({ EveryCase } \cup Classifiers \cup Fractions \cup Repeaters \cup Revisitors)

SpecFloats == InitFloats /\ [][Next]_vars

\* A caller that, with interrupts unmasked, renders a float and then prints
\* on the console.
Interruptibles ==
  { << Unmasked(SimpleReq("float_to_string", x.in, x.digits, 0)),
       Unmasked(Req(api, f.fmt, f.args, 0, 10)) >> :
      x \in { [ in |-> FloatBits(0, 127, 4194304), digits |-> 1 ],
              [ in |-> FloatBits(1, 0, 1), digits |-> 3 ],
              [ in |-> FloatBits(0, 254, 8388607), digits |-> 2 ],
              [ in |-> FloatBits(0, 255, 1), digits |-> 3 ],
              [ in |-> 0, digits |-> 3 ] },
      api \in ConsoleApis,
      f \in { [ fmt |-> Str(<< "h", "e", "l", "l", "o" >>), args |-> << >> ],
              [ fmt |-> Str(<< "n", ":", "%", "d" >>), args |-> << AInt(0 - 12) >> ],
              [ fmt |-> << >>, args |-> << >> ] } }

InitInterrupts == Start({ EveryCase } \cup Interruptibles)

SpecInterrupts == InitInterrupts /\ [][Next]_vars

\* A caller that renders one number with %d or %i through one of the
\* entry points, the bounded ones with room for the longest text.
Decimals ==
  { << Req(api, << Asc("%"), Asc(c) >>, << AInt(v) >>, 12, 10) >> :
      api \in BoundedApis \cup UnboundedApis, c \in { "d", "i" }, v \in Numbers }

InitDecimals == Start({ EveryCase } \cup Decimals)

SpecDecimals == InitDecimals /\ [][Next]_vars

\* ------------------------------------------------------------ directives

\* The directives the callers build, one per call: the flags, a width
\* (absent, a digit up to MaxWidth, or a negative '*' argument), a precision
\* (absent, a bare '.', a digit up to MaxPrec, or a negative '*' argument)
\* and a conversion with its arguments.
MaxWidth == 4
MaxPrec == 3

FlagTexts ==
  { a \o b \o c : a \in {<< >>, Str(<< "-" >>)}, b \in {<< >>, Str(<< "#" >>)},
                  c \in {<< >>, Str(<< "0" >>)} }

Widths ==
  { NoPiece, Piece(Str(<< "*" >>), << AInt(0 - 3) >>) }
  \cup { Piece(<< Asc("0") + w >>, << >>) : w \in 1..MaxWidth }

Precisions ==
  { NoPiece, Piece(Str(<< "." >>), << >>), Piece(Str(<< ".", "*" >>), << AInt(0 - 1) >>) }
  \cup { Piece(<< Asc("."), Asc("0") + d >>, << >>) : d \in 0..MaxPrec }

Values == { 0, 7, 0 - 12, INT_MIN }

Conv(ch, args, api, radix) == [ ch |-> ch, args |-> args, api |-> api, radix |-> radix ]

BITS == << 8, 2, Asc("B"), Asc("I"), Asc("T"), Asc("T"), Asc("W"), Asc("O"),
           1, Asc("B"), Asc("I"), Asc("T"), Asc("O"), Asc("N"), Asc("E") >>

Conversions ==
  { Conv(Asc(c), << AInt(v) >>, "sprintf", 10) :
      c \in {"d", "i", "u", "o", "x", "X", "y", "r"}, v \in Values }
  \cup { Conv(Asc("r"), << AInt(v) >>, "vsnrprintf", 16) : v \in Values }
  \cup { Conv(Asc("p"), << APtr(v) >>, "sprintf", 10) : v \in Values }
  \cup { Conv(Asc("s"), << a >>, "sprintf", 10) :
           a \in { ANull, AStr(<< >>), AStr(Str(<< "h", "e", "l", "l", "o" >>)) } }
  \cup { Conv(Asc("b"), << AInt(v), AStr(BITS) >>, "sprintf", 10) : v \in {0, 3} }
  \cup { Conv(Asc("c"), << AInt(65) >>, "sprintf", 10),
         Conv(Asc("%"), << >>, "sprintf", 10),
         Conv(Asc("n"), << APtr(0) >>, "sprintf", 10),
         Conv(Asc("D"), << ABytes([j \in 1..16 |-> 15 * j]), AStr(Str(<< ":" >>)) >>,
              "sprintf", 10),
         Conv(Asc("q"), << >>, "sprintf", 10) }

Directive(plus, f, w, d, c) ==
  Piece(Str(<< "%" >>) \o plus \o f \o w.text \o d.text \o << c.ch >>,
        w.args \o d.args \o c.args)

\* A caller that renders a directive with the '+' flag, then the same
\* directive without it.
BufSize == 64
Render(c, d) == Req(c.api, d.text, d.args, BufSize, c.radix)
Signs(f, w, d, c) ==
  << Render(c, Directive(Str(<< "+" >>), f, w, d, c)),
     Render(c, Directive(<< >>, f, w, d, c)) >>

Signers ==
  { Signs(f, w, d, c) : f \in FlagTexts, w \in Widths, d \in Precisions,
                        c \in Conversions }

\* A caller that decodes a value with %b under one of its descriptors: the
\* base byte, then groups of a bit number and a name.
Descriptors ==
  { BITS,
    << 16, 1, Asc("A"), 3, Asc("B") >>,
    << 10, 4, Asc("T"), Asc("O"), 32, Asc("Z") >>,
    << 2, 1, Asc("A"), 2, Asc("B"), 3, Asc("I"), 4, Asc("T") >>,
    << 8 >> }

Decoders ==
  { << Req("sprintf", Str(<< "%", "b" >>), << AInt(v), AStr(q) >>, 0, 10) >> :
      v \in {0, 1, 2, 3, 4, 5, 8, 15}, q \in Descriptors }

\* A caller that dumps the first bytes of a buffer with %D: the count is
\* absent, a zero or negative '*' argument, or a digit up to MaxWidth; the
\* separator is empty, one character or two.
Separators == { << >>, Str(<< ":" >>), Str(<< ",", " " >>) }

DumpWidths ==
  Widths \cup { Piece(Str(<< "*" >>), << AInt(0) >>) }

Dumpers ==
  { << Req("sprintf", Str(<< "%" >>) \o f \o w.text \o Str(<< "D", "." >>),
           w.args \o << ABytes([j \in 1..16 |-> (37 * j + b) % 256]), AStr(p) >>,
           0, 10) >> :
      f \in {<< >>, Str(<< "-" >>)}, w \in DumpWidths, p \in Separators,
      b \in { 0, 128 } }

InitDir == Start({ EveryCase } \cup Signers \cup Decoders \cup Dumpers)

SpecDir == InitDir /\ [][Next]_vars

\* ------------------------------------------------------------ radixes

\* A caller that renders %r through vsnrprintf under a radix from -1 to
\* MaxRadix, or %b under a descriptor whose base byte is one of them.
MaxRadix == 37

RadixDirectives ==
  { Str(<< "%", "r" >>), Str(<< "%", "+", "r" >>), Str(<< "%", "#", "4", "r" >>),
    Str(<< "%", "-", "4", ".", "2", "r" >>) }

Radixers ==
  { << Req("vsnrprintf", f, << AInt(v) >>, BufSize, radix) >> :
      f \in RadixDirectives, v \in Values, radix \in (0 - 1)..MaxRadix }
  \cup { << Req("sprintf", Str(<< "%", "b" >>),
               << AInt(v), AStr(<< base, 1, Asc("A"), 3, Asc("B") >>) >>, 0, 10) >> :
           v \in {0, 1, 5, 8}, base \in 1..MaxRadix }

InitRadix == Start({ EveryCase } \cup Radixers)

SpecRadix == InitRadix /\ [][Next]_vars

\* ------------------------------------------------------------ returned calls

Calls == 1..Len(results)

\* Two calls given the same format memory and the same arguments.
SameInput(r, q) ==
  r.fmtnull = q.fmtnull /\ r.fmt = q.fmt /\ r.tail = q.tail /\ r.args = q.args

\* The default radix a call ran under.
RadixOf(r) ==
  IF r.api = "vsnrprintf" /\ r.radix >= 2 /\ r.radix <= 36 THEN r.radix ELSE 10

Bytes(t) == { t[x] : x \in 1..Len(t) }
Min(a, b) == IF a < b THEN a ELSE b
Max(a, b) == IF a > b THEN a ELSE b

\* C1 (as claimed): a bounded call returns what vsprintf returns for the same
\* format and arguments, whatever its size.
C1_SameAsVsprintf ==
  \A i, j \in Calls :
    (/\ results[i].api \in BoundedApis
     /\ results[j].api = "vsprintf"
     /\ SameInput(results[i], results[j]))
    => results[i].retval = results[j].retval

\* C1 (amended): a bounded call returns the same count whatever its size, and
\* that count is what vsprintf returns for the same format and arguments
\* when the call runs under radix 10 or the format has no 'r'.
C1_LogicalCount ==
  \A i, j \in Calls :
    (/\ results[i].api \in BoundedApis
     /\ SameInput(results[i], results[j])
     /\ \/ /\ results[j].api = "vsprintf"
           /\ \/ RadixOf(results[i]) = 10
              \/ Asc("r") \notin Bytes(results[i].fmt \o results[i].tail)
        \/ /\ results[j].api = results[i].api
           /\ results[j].radix = results[i].radix)
    => results[i].retval = results[j].retval

\* A truncated bounded call, the same call with room, and vsprintf, all
\* returning the same non-zero count.
C1_Witness ==
  /\ Len(results) = 3
  /\ results[1].api = "vsnrprintf"
  /\ results[3].api = "vsprintf"
  /\ results[1].size < results[1].retval
  /\ results[2].size = results[1].retval + 1
  /\ results[1].retval = results[3].retval
  /\ results[1].nargs > 0

\* C2: a bounded call with size N >= 1 leaves the first k = min(M, N-1)
\* characters of the untruncated output in str[0..k-1] and one NUL in str[k],
\* and no byte at index N or beyond is written at any time.
C2_Truncation ==
  /\ kv.func = "snprintf_func" => Len(kv.dest) <= call.size
  /\ \A i \in Calls :
       LET r == results[i]
           k == Min(r.retval, r.size - 1)
       IN  (r.api \in BoundedApis /\ r.size >= 1)
           => /\ r.dest = SubSeq(r.emitted, 1, k) \o << NUL >>
              /\ \A j \in Calls :
                   (/\ results[j].api = "vsprintf"
                    /\ SameInput(r, results[j])
                    /\ RadixOf(r) = 10)
                   => /\ results[j].retval = r.retval
                      /\ SubSeq(results[j].dest, 1, k) = SubSeq(r.dest, 1, k)

\* vsnprintf has cut an output short of its buffer's size, and vsprintf has
\* rendered the same input.
C2_Witness ==
  /\ Len(results) = 3
  /\ results[1].api = "vsnprintf"
  /\ results[1].size >= 2
  /\ results[1].retval > results[1].size
  /\ Len(results[1].dest) = results[1].size
  /\ results[3].api = "vsprintf"

\* C3: vsnprintf with size 0 writes nothing, not even a terminator, and
\* returns the logical count M; the same call with size M + 1 then stores
\* the whole output, as vsprintf does.
C3_ZeroSize ==
  \A i \in Calls :
    LET r == results[i]
    IN  (r.api \in {"vsnprintf", "snprintf"} /\ r.size = 0)
        => /\ r.dest = << >>
           /\ \A j \in Calls :
                SameInput(r, results[j])
                => /\ results[j].retval = r.retval
                   /\ (results[j].api = "vsprintf" \/ results[j].size = r.retval + 1)
                      => /\ results[j].dest = results[j].emitted \o << NUL >>
                         /\ Len(results[j].dest) = r.retval + 1
                         /\ results[j].emitted = r.emitted

\* The zero-size call, then the call with the size it asked for.
C3_Witness ==
  /\ Len(results) >= 2
  /\ results[1].api = "vsnprintf"
  /\ results[1].size = 0
  /\ results[1].retval >= 3
  /\ results[1].dest = << >>
  /\ results[2].api = "vsnprintf"
  /\ results[2].size = results[1].retval + 1
  /\ Len(results[2].dest) = results[2].size

\* C4: an unsupported conversion character leaves the text before its
\* directive rendered as it is without it, echoes the directive from its '%'
\* through that character, and from then on every character of the format
\* is copied unchanged and no argument is consumed.
C4_Lockout ==
  \A i, j \in Calls : \A u \in Unsupported : \A rest \in Rests :
    (/\ results[i].api = "sprintf"
     /\ results[j].api = "sprintf"
     /\ results[j].args = results[i].args
     /\ results[j].fmt = results[i].fmt \o u \o rest)
    => /\ results[j].emitted = results[i].emitted \o u \o rest
       /\ results[j].retval = results[i].retval + Len(u) + Len(rest)
       /\ results[j].nargs = results[i].nargs
       /\ results[j].stop = 1

\* A directive rendered before the unsupported one, and a "%d" after it
\* that was copied while its argument was left alone.
C4_Witness ==
  /\ Len(results) = 2
  /\ results[1].api = "sprintf"
  /\ results[1].nargs = 1
  /\ results[1].stop = 0
  /\ results[2].fmt = results[1].fmt \o Str(<< "%", "q" >>) \o Str(<< "%", "d" >>)
  /\ results[2].nargs = 1
  /\ results[2].stop = 1

\* C5: kvprintf returns on reaching the format's terminating NUL, also when
\* it is inside a directive: it never gives that NUL to the sink, never
\* counts it, never reads the bytes after it.
C5_ReturnsAtNul ==
  /\ pc \in {"scan", "reswitch"} => kv.fmt <= Len(FmtText) + 1
  /\ \A i \in Calls :
       /\ results[i].fmtend = Len(IF results[i].fmtnull THEN FmtNull ELSE results[i].fmt) + 2
       /\ results[i].nargs = 0 => NUL \notin Bytes(results[i].emitted)

\* ------------------------------------------------------------ converted directives

\* The argument the directive converted last took its value from.
Converted == call.args[last.pre.ap]

Plain(pre) == pre.hflag = 0 /\ pre.cflag = 0

NumericConvs == { Asc(c) : c \in {"d", "i", "u", "o", "x", "X", "y", "p", "r"} }

SignedConv == last.ch \in {Asc("d"), Asc("i"), Asc("y")}
              \/ (last.ch = Asc("r") /\ last.pre.sign = 1)
BaseOfConv == IF last.ch \in {Asc("d"), Asc("i"), Asc("u")} THEN 10
              ELSE IF last.ch = Asc("o") THEN 8
              ELSE IF last.ch = Asc("r") THEN last.pre.radix ELSE 16
Minus == SignedConv /\ Converted.i < 0
Magnitude == IF Minus THEN Neg32(Converted.i) ELSE Converted.i
DigitsOfConv ==
  Reverse(ksprintn(Magnitude, BaseOfConv, IF last.ch = Asc("X") THEN 1 ELSE 0))
PrefixOfConv ==
  IF Magnitude # 0 /\ (IF last.ch = Asc("p") THEN last.pre.width = 0
                       ELSE last.pre.sharpflag = 1)
  THEN IF BaseOfConv = 8 THEN Str(<< "0" >>)
       ELSE IF BaseOfConv = 16 THEN Str(<< "0", "x" >>) ELSE << >>
  ELSE << >>
SignOfConv == IF Minus THEN Str(<< "-" >>) ELSE << >>

\* C6: a numeric conversion without zero padding, or left-justified, emits
\* max(width, s + a + max(precision, n)) characters: padding spaces, sign,
\* prefix, '0' fill up to the precision, digits, with the padding last when
\* left-justified.
C6_NumberField ==
  (/\ pc = "scan"
   /\ last.ch \in NumericConvs
   /\ Plain(last.pre)
   /\ last.pre.padc # Asc("0") \/ last.pre.ladjust = 1)
  => LET n    == Len(DigitsOfConv)
         body == SignOfConv \o PrefixOfConv
                 \o Rep(Asc("0"), Max(last.pre.dwidth, n) - n) \o DigitsOfConv
         pad  == Rep(Asc(" "), last.pre.width - Len(body))
     IN  /\ last.text = IF last.pre.ladjust = 1 THEN body \o pad ELSE pad \o body
         /\ Len(last.text) = Max(last.pre.width,
                                 Len(SignOfConv) + Len(PrefixOfConv)
                                 + Max(last.pre.dwidth, n))

\* A negative value converted in base 16 with its prefix, a precision above
\* its digit count and a width above the field.
C6_Witness ==
  /\ pc = "scan"
  /\ last.ch = Asc("y")
  /\ last.pre.padc # Asc("0")
  /\ last.pre.ladjust = 0
  /\ last.pre.sharpflag = 1
  /\ last.pre.dwidth = 3
  /\ last.pre.width = MaxWidth
  /\ Converted.i = 0 - 12
  /\ Len(last.text) = 6

RECURSIVE Decimal(_)
Decimal(m) == IF m < 10 THEN << Asc("0") + m >>
              ELSE Decimal(m \div 10) \o << Asc("0") + (m % 10) >>

\* C7: %0Wd and %0Wi, without '-' or a precision, render a value whose
\* sign and digits take less than W characters as exactly W characters:
\* the '-' if negative, then '0's, then the digits.
C7_ZeroPad ==
  (/\ pc = "scan"
   /\ last.ch \in {Asc("d"), Asc("i")}
   /\ Plain(last.pre)
   /\ last.pre.padc = Asc("0")
   /\ last.pre.ladjust = 0
   /\ last.pre.dot = 0
   /\ Converted.i # INT_MIN)
  => LET v    == Converted.i
         sign == IF v < 0 THEN Str(<< "-" >>) ELSE << >>
         digs == Decimal(IF v < 0 THEN 0 - v ELSE v)
         W    == last.pre.width
     IN  Len(sign) + Len(digs) < W
         => /\ last.text = sign \o Rep(Asc("0"), W - Len(sign) - Len(digs)) \o digs
            /\ Len(last.text) = W

\* -12 under %04d or %04i
C7_Witness ==
  /\ pc = "scan"
  /\ last.ch \in {Asc("d"), Asc("i")}
  /\ last.pre.padc = Asc("0")
  /\ last.pre.ladjust = 0
  /\ last.pre.dot = 0
  /\ last.pre.width = 4
  /\ Converted.i = 0 - 12
  /\ last.text = Str(<< "-", "0", "1", "2" >>)

\* The groups of a %b descriptor from its byte i on: a bit number, then
\* the bytes above 0x20 that make its name.
RECURSIVE NameEnd(_, _)
NameEnd(q, i) == IF i <= Len(q) /\ q[i] > 32 THEN NameEnd(q, i + 1) ELSE i

RECURSIVE Groups(_, _)
Groups(q, i) ==
  IF i > Len(q) THEN << >>
  ELSE << [ bit |-> q[i], name |-> SubSeq(q, i + 1, NameEnd(q, i + 1) - 1) ] >>
       \o Groups(q, NameEnd(q, i + 1))

\* Bit number bit, origin 1, of a value 0 <= v < 2^31.
BitOf(v, bit) == bit < 32 /\ (v \div Pow2(bit - 1)) % 2 = 1

RECURSIVE Listed(_, _)
Listed(v, g) ==
  IF g = << >> THEN << >>
  ELSE (IF BitOf(v, Head(g).bit) THEN << Head(g).name >> ELSE << >>) \o Listed(v, Tail(g))

RECURSIVE Commas(_)
Commas(names) ==
  IF Len(names) = 1 THEN Head(names)
  ELSE Head(names) \o Str(<< "," >>) \o Commas(Tail(names))

\* C8: %b emits the value in the descriptor's base, then, if the value is
\* not 0 and has a listed bit set, '<', the names of the listed bits that
\* are set, in descriptor order with ',' between them, and '>'.
C8_BitDecode ==
  (/\ pc = "scan"
   /\ last.ch = Asc("b")
   /\ last.pre.fmt = last.pre.percent + 1
   /\ Converted.i >= 0)
  => LET v     == Converted.i
         q     == call.args[last.pre.ap + 1].s
         names == Listed(v, Groups(q, 2))
     IN  last.text = Reverse(ksprintn(v, q[1], 0))
                     \o (IF v # 0 /\ names # << >>
                         THEN Str(<< "<" >>) \o Commas(names) \o Str(<< ">" >>)
                         ELSE << >>)

\* 3 under "\10\2BITTWO\1BITONE" has rendered "3<BITTWO,BITONE>".
C8_Witness ==
  /\ pc = "scan"
  /\ last.ch = Asc("b")
  /\ last.pre.fmt = last.pre.percent + 1
  /\ Converted.i = 3
  /\ call.args[last.pre.ap + 1].s = BITS
  /\ last.text = Str(<< "3", "<", "B", "I", "T", "T", "W", "O", ",",
                        "B", "I", "T", "O", "N", "E", ">" >>)

\* The string %s renders: "(null)" for a NULL argument.
StringOfConv == IF Converted.t = "null" THEN Str(<< "(", "n", "u", "l", "l", ")" >>)
                ELSE Converted.s

\* The field of a %s that emits the first n characters of its string.
StringField(n) ==
  LET str == SubSeq(StringOfConv, 1, n)
      pad == Rep(last.pre.padc, Max(last.pre.width, n) - Len(str))
  IN  /\ Len(str) = n
      /\ last.text = IF last.pre.ladjust = 1 THEN str \o pad ELSE pad \o str
      /\ Len(last.text) = Max(last.pre.width, n)

\* C9 (as claimed): %s renders a NULL argument as the string "(null)"; it
\* emits strlen characters of the string, or min(strlen, precision) when a
\* precision is given, in a field of max(width, that number) characters.
C9_AsClaimed ==
  (pc = "scan" /\ last.ch = Asc("s"))
  => StringField(IF last.pre.dot = 0 THEN Len(StringOfConv)
                 ELSE Min(Len(StringOfConv), last.pre.dwidth))

\* C9 (amended): as claimed, a negative precision (one passed through '*')
\* counting as 0: no character of the string is emitted.
C9_StringField ==
  (pc = "scan" /\ last.ch = Asc("s"))
  => StringField(IF last.pre.dot = 0 THEN Len(StringOfConv)
                 ELSE Min(Len(StringOfConv), Max(last.pre.dwidth, 0)))

\* A NULL argument cut to its precision in a wider field.
C9_Witness ==
  /\ pc = "scan"
  /\ last.ch = Asc("s")
  /\ Converted.t = "null"
  /\ last.pre.dot = 1
  /\ last.pre.dwidth = 3
  /\ last.pre.width = 4
  /\ last.pre.ladjust = 0
  /\ last.pre.padc = Asc(" ")
  /\ last.text = Str(<< " ", "(", "n", "u" >>)

\* Call i rendered a directive carrying '+' and call j the same directive
\* with the '+' removed, on the same arguments and under the same radix.
NotPlus(c) == c # Asc("+")
PlusRemoved(i, j) ==
  /\ results[i].fmt # << >>
  /\ results[i].fmt # results[j].fmt
  /\ results[j].fmt = SelectSeq(results[i].fmt, NotPlus)
  /\ results[j].args = results[i].args
  /\ results[j].api = results[i].api
  /\ results[j].radix = results[i].radix

SameRendering(i, j) ==
  /\ results[j].emitted = results[i].emitted
  /\ results[j].dest = results[i].dest
  /\ results[j].nargs = results[i].nargs
  /\ results[j].stores = results[i].stores
  /\ results[j].retval = results[i].retval

ConvOf(r) == r.fmt[Len(r.fmt)]

\* C10 (as claimed): for every conversion character, a directive carrying
\* '+' emits the same characters, consumes the same arguments and returns
\* the same value as the directive with the '+' removed.
C10_AsClaimed ==
  \A i, j \in Calls : PlusRemoved(i, j) => SameRendering(i, j)

\* C10 (amended): so it is for every conversion character the switch has a
\* case for, other than 'r'.
C10_PlusInert ==
  \A i, j \in Calls :
    (/\ PlusRemoved(i, j)
     /\ ConvOf(results[i]) \in CaseChars
     /\ ConvOf(results[i]) # Asc("r"))
    => SameRendering(i, j)

\* "%+u" and "%u" have rendered -12 alike.
C10_Witness ==
  /\ Len(results) = 2
  /\ PlusRemoved(1, 2)
  /\ results[2].fmt = Str(<< "%", "u" >>)
  /\ results[1].args = << AInt(0 - 12) >>
  /\ results[1].retval = 10
  /\ SameRendering(1, 2)

\* ------------------------------------------------------------ bases

SupportedBases == {2, 8, 10, 16}

\* The field of a %r or a plain %b whose digits are the sequence digs.
FieldOfDigits(digs) ==
  IF last.ch = Asc("b")
  THEN LET names == Listed(Converted.i, Groups(call.args[last.pre.ap + 1].s, 2))
       IN  digs \o (IF Converted.i # 0 /\ names # << >>
                    THEN Str(<< "<" >>) \o Commas(names) \o Str(<< ">" >>)
                    ELSE << >>)
  ELSE LET body == SignOfConv \o PrefixOfConv
                   \o Rep(Asc("0"), last.pre.dwidth - Len(digs)) \o digs
           pad  == Rep(Asc(" "), last.pre.width - Len(body))
       IN  IF last.pre.ladjust = 1 THEN body \o pad ELSE pad \o body

RadixConverted ==
  /\ pc = "scan"
  /\ last.pre.padc = Asc(" ")
  /\ \/ last.ch = Asc("r")
     \/ last.ch = Asc("b") /\ last.pre.fmt = last.pre.percent + 1 /\ Converted.i >= 0

StarWidth ==
  /\ pc = "scan"
  /\ last.ch # NUL
  /\ last.pre.percent = 1
  /\ \E x \in 2..(last.pre.fmt - 1) :
       /\ call.fmt[x] = Asc("*")
       /\ \A y \in 2..(x - 1) : call.fmt[y] \notin {Asc("."), Asc("*")}

\* C12: a directive whose '*' width argument is negative is rendered
\* left-justified, content first and padding after, in a field of the
\* argument's absolute value, whatever its other flags.
C12_NegativeStar ==
  (/\ StarWidth
   /\ call.args[1].i < 0
   /\ last.ch \in NumericConvs \cup {Asc("s"), Asc("c")})
  => /\ last.pre.ladjust = 1
     /\ last.pre.width = 0 - call.args[1].i
     /\ Len(last.text) >= last.pre.width
     /\ last.ch \in NumericConvs
        => LET n    == Len(DigitsOfConv)
               body == SignOfConv \o PrefixOfConv
                       \o Rep(Asc("0"), Max(last.pre.dwidth, n) - n) \o DigitsOfConv
           IN  last.text = body \o Rep(Asc(" "), (0 - call.args[1].i) - Len(body))

\* ------------------------------------------------------------ pointers

\* The lowercase hexadecimal digits of a word, most significant first.
LowerHex == Str(<< "0", "1", "2", "3", "4", "5", "6", "7",
                   "8", "9", "a", "b", "c", "d", "e", "f" >>)
RECURSIVE HexText(_)
HexText(w) ==
  IF UDiv(w, 16) = 0 THEN << LowerHex[UMod(w, 16) + 1] >>
  ELSE HexText(UDiv(w, 16)) \o << LowerHex[UMod(w, 16) + 1] >>

\* %p converted last, with no width and no precision in the directive.
PointerConverted ==
  /\ pc = "scan"
  /\ last.ch = Asc("p")
  /\ last.pre.width = 0
  /\ last.pre.dot = 0

\* C13 as stated: %p without a width renders "0x" and the lowercase
\* hexadecimal digits of the pointer, for every pointer value.
C13_AsClaimed ==
  PointerConverted
  => last.text = Str(<< "0", "x" >>) \o HexText(Converted.i)

\* C13: %p without a width renders every pointer but the null one as "0x"
\* and its lowercase hexadecimal digits, with or without the '#' flag and
\* never with a sign; the null pointer renders as "0", with no prefix.
C13_PointerPrefix ==
  PointerConverted
  => last.text = IF Converted.i = 0 THEN Str(<< "0" >>)
                 ELSE Str(<< "0", "x" >>) \o HexText(Converted.i)

\* A pointer with its top bit set converted by %p without '#'.
C13_Witness ==
  /\ PointerConverted
  /\ last.pre.sharpflag = 0
  /\ Converted.i = INT_MIN
  /\ last.text = Str(<< "0", "x", "8", "0", "0", "0", "0", "0", "0", "0" >>)

\* ------------------------------------------------------------ console writes

\* The returned calls among the first n that went to the console.
RECURSIVE Printed(_)
Printed(n) ==
  IF n = 0 THEN 0
  ELSE Printed(n - 1) + (IF results[n].api \in ConsoleApis THEN 1 ELSE 0)

\* C14: every printf or vprintf call makes exactly one transport call, a
\* DCLOAD_WRITE on descriptor 1 of the return value plus one bytes of
\* print_buffer, made once the rendering is complete and terminated and
\* not before; the call returns the rendering count, which is what
\* vsprintf returns for the same input, whatever the transport returned.
C14_OneWrite ==
  /\ Len(syscalls) = Printed(Len(results))
  /\ \A i \in Calls :
       results[i].api \in ConsoleApis
       => LET w == syscalls[Printed(i)]
              r == results[i]
          IN  /\ w.nr = DCLOAD_WRITE
              /\ w.fd = 1
              /\ w.len = r.retval + 1
              /\ w.buf = r.dest
              /\ Len(w.buf) >= w.len
              /\ w.buf[w.len] = NUL
              /\ r.retval = Len(r.emitted)
              /\ \A j \in Calls :
                   (results[j].api = "vsprintf" /\ SameInput(r, results[j]))
                   => /\ r.retval = results[j].retval
                      /\ w.buf = results[j].dest

\* A printf call that rendered a conversion and returned its count although
\* the transport call failed, followed by vsprintf on the same input.
C14_Witness ==
  /\ Len(results) = 2
  /\ results[1].api = "printf"
  /\ results[2].api = "vsprintf"
  /\ SameInput(results[1], results[2])
  /\ results[1].retval = 5
  /\ results[1].nargs = 2
  /\ Len(syscalls) = 1
  /\ syscalls[1].ret = 0 - 1

\* ------------------------------------------------------------ rendered numerals

\* The returned simple_print calls.
Renders == 1..Len(strings)

\* The decimal text of v below 10^9, in exactly nine digits.
NineDigits(v) == [ j \in 1..9 |-> Asc("0") + ((v \div Pow10(9 - j)) % 10) ]

\* The canonical decimal text of the unsigned value of a word: for a word
\* with the top bit set, that value is 2^31 + (w - INT_MIN), split into a
\* count of 10^9 and a rest.
DecimalOfWord(w) ==
  IF w >= 0 THEN Decimal(w)
  ELSE LET x    == w - INT_MIN
           rest == (x % 1000000000) + 147483648
           bill == (x \div 1000000000) + 2 + (rest \div 1000000000)
       IN  Decimal(bill) \o NineDigits(rest % 1000000000)

\* C15: uint_to_string leaves at out_string[0] the NUL-terminated canonical
\* decimal text of the value, 1 to 10 digits with no leading zero but for
\* "0" itself, "4294967295" for the largest value, and returns out_string.
C15_UintText ==
  \A i \in Renders :
    strings[i].api = "uint_to_string"
    => LET text == TextAt(strings[i].mem, test_array)
       IN  /\ text = DecimalOfWord(strings[i].in)
           /\ Len(text) \in 1..10
           /\ Bytes(text) \subseteq (Asc("0") .. Asc("9"))
           /\ (text[1] = Asc("0") => strings[i].in = 0 /\ Len(text) = 1)
           /\ (strings[i].in = 0 - 1
                => text = Str(<< "4", "2", "9", "4", "9", "6", "7", "2", "9", "5" >>))
           /\ strings[i].ret = test_array

\* The largest value rendered over unknown bytes that are not NUL.
C15_Witness ==
  \E i \in Renders :
    /\ strings[i].api = "uint_to_string"
    /\ strings[i].in = 0 - 1
    /\ strings[i].junk = 255
    /\ TextAt(strings[i].mem, test_array)
         = Str(<< "4", "2", "9", "4", "9", "6", "7", "2", "9", "5" >>)

\* C16: int_to_string leaves at out_string[0] the NUL-terminated text made
\* of '-' exactly when the value is negative, then the canonical decimal
\* digits of its magnitude, for -2147483648 as for every other value; and
\* every index it uses into the digit table lies in 0..9.
C16_IntText ==
  \A i \in Renders :
    strings[i].api = "int_to_string"
    => LET text == TextAt(strings[i].mem, test_array)
           v    == strings[i].in
       IN  /\ text = (IF v < 0 THEN Str(<< "-" >>) ELSE << >>)
                      \o DecimalOfWord(IF v < 0 THEN Neg32(v) ELSE v)
           /\ (v = INT_MIN
                => text = Str(<< "-", "2", "1", "4", "7", "4", "8", "3", "6", "4", "8" >>))
           /\ (v = 0 => text = Str(<< "0" >>))
           /\ strings[i].idx \subseteq 0..9
           /\ strings[i].ret = test_array

\* The most negative value rendered, all ten digit positions and the sign
\* position used.
C16_Witness ==
  \E i \in Renders :
    /\ strings[i].api = "int_to_string"
    /\ strings[i].in = INT_MIN
    /\ Len(TextAt(strings[i].mem, test_array)) = 11
    /\ strings[i].idx = { 2, 1, 4, 7, 8, 3, 6 }

\* ------------------------------------------------------------ buffer bounds

\* The bytes of out_string a call has read or written.
Touched(r) == r.rd \cup r.wr

\* C17: given a buffer of the documented minimum size, uint_to_string reads
\* and writes only bytes 0..10 of out_string, int_to_string only bytes
\* 0..11 and hex_to_string only bytes 0..10, whatever the value.
C17_InsideBuffer ==
  \A i \in Renders :
    /\ strings[i].api = "uint_to_string"
       => Touched(strings[i]) \subseteq (test_array .. (test_array + 10))
    /\ strings[i].api = "int_to_string"
       => Touched(strings[i]) \subseteq (test_array .. (test_array + 11))
    /\ strings[i].api = "hex_to_string"
       => Touched(strings[i]) \subseteq (test_array .. (test_array + 10))

\* ------------------------------------------------------------ hexadecimal round trip

\* The value of a lowercase hexadecimal digit.
HexValue(c) == IF c >= Asc("a") THEN c - Asc("a") + 10 ELSE c - Asc("0")

\* The number a text of at most four hexadecimal digits denotes.
RECURSIVE ParseHalf(_)
ParseHalf(t) ==
  IF t = << >> THEN 0
  ELSE 16 * ParseHalf(SubSeq(t, 1, Len(t) - 1)) + HexValue(t[Len(t)])

\* The word eight hexadecimal digits denote: the halves parsed apart and
\* put together as a two's complement word.
ParseHex(t) ==
  LET hi == ParseHalf(SubSeq(t, 1, 4))
      lo == ParseHalf(SubSeq(t, 5, 8))
  IN  (IF hi >= 32768 THEN hi - 65536 ELSE hi) * 65536 + lo

HexChars == (Asc("0") .. Asc("9")) \cup (Asc("a") .. Asc("f"))

\* C18: hex_to_string yields "0x", then exactly eight lowercase hexadecimal
\* digits, then a NUL at index 10; the eight digits parsed as hexadecimal
\* give the value back; 0x00000400 renders as "0x00000400".
C18_HexRoundTrip ==
  \A i \in Renders :
    strings[i].api = "hex_to_string"
    => LET text == TextAt(strings[i].mem, test_array)
       IN  /\ Len(text) = 10
           /\ strings[i].mem[test_array + 10 + 1] = NUL
           /\ SubSeq(text, 1, 2) = Str(<< "0", "x" >>)
           /\ Bytes(SubSeq(text, 3, 10)) \subseteq HexChars
           /\ ParseHex(SubSeq(text, 3, 10)) = strings[i].in
           /\ (strings[i].in = 1024
                => text = Str(<< "0", "x", "0", "0", "0", "0", "0", "4", "0", "0" >>))
           /\ strings[i].ret = test_array

\* A value with the top bit set and letters among its digits, rendered over
\* unknown bytes that are not NUL.
C18_Witness ==
  \E i \in Renders :
    /\ strings[i].api = "hex_to_string"
    /\ strings[i].in = (0 - 1) - 305419896
    /\ strings[i].junk = 255
    /\ TextAt(strings[i].mem, test_array)
         = Str(<< "0", "x", "e", "d", "c", "b", "a", "9", "8", "7" >>)

\* ------------------------------------------------------------ float classes

\* The bits of a float without its sign bit, and the bits of +Inf: the
\* exponent field all ones over a zero mantissa.
Unsigned(w) == IF w < 0 THEN w - INT_MIN ELSE w
PlusInf == 255 * 8388608

\* The coefficient/exponent path is the one that goes through the static
\* buffers and leaves a text with "x2^" in it.
Contains(t, u) == \E x \in 1..(Len(t) - Len(u) + 1) : SubSeq(t, x, x + Len(u) - 1) = u
TookNumberPath(r) ==
  /\ r.wr \cap StaticBytes # {}
  /\ Contains(TextAt(r.mem, test_array), Str(<< "x", "2", "^" >>))

\* C19: float_to_string renders every NaN, of either sign, as "NaN"; both
\* zeroes as "0.0"; negative infinity as "-Inf"; positive infinity as
\* "Inf"; and takes the coefficient/exponent path for every other value
\* and for no value of those four classes, whatever the digits asked for.
C19_Classes ==
  \A i \in Renders :
    strings[i].api = "float_to_string"
    => LET r    == strings[i]
           text == TextAt(r.mem, test_array)
       IN  /\ r.ret = test_array
           /\ IF Unsigned(r.in) > PlusInf
              THEN text = Str(<< "N", "a", "N" >>) /\ ~TookNumberPath(r)
              ELSE IF Unsigned(r.in) = 0
              THEN text = Str(<< "0", ".", "0" >>) /\ ~TookNumberPath(r)
              ELSE IF r.in = INT_MIN + PlusInf
              THEN text = Str(<< "-", "I", "n", "f" >>) /\ ~TookNumberPath(r)
              ELSE IF r.in = PlusInf
              THEN text = Str(<< "I", "n", "f" >>) /\ ~TookNumberPath(r)
              ELSE TookNumberPath(r)

\* A negative NaN without the top mantissa bit rendered with the most
\* digits.
C19_Witness ==
  \E i \in Renders :
    /\ strings[i].api = "float_to_string"
    /\ strings[i].in = INT_MIN + PlusInf + 1
    /\ strings[i].digits = MaxDigits
    /\ TextAt(strings[i].mem, test_array) = Str(<< "N", "a", "N" >>)

\* ------------------------------------------------------------ float accuracy

\* The three digits after the '.' of a rendered coefficient, as a number
\* of thousandths.
Thousandths(text) ==
  LET dot == CHOOSE x \in 1..Len(text) : text[x] = Asc(".")
  IN  100 * (text[dot + 1] - Asc("0")) + 10 * (text[dot + 2] - Asc("0"))
      + (text[dot + 3] - Asc("0"))

\* The rounding carry shows as the exponent one above the exponent field
\* (or as the leading digit 1 of a denormal).
Carried(r) ==
  LET text == TextAt(r.mem, test_array)
      fs   == float_struct(r.in)
  IN  IF fs.exponent = 0 THEN Contains(text, Str(<< "1", "." >>))
      ELSE text = (IF fs.sign = 1 THEN Str(<< "-" >>) ELSE << >>)
                  \o Str(<< "1", ".", "0", "0", "0", "x", "2", "^" >>)
                  \o (IF fs.exponent - 126 < 0 THEN Str(<< "-" >>) ELSE << >>)
                  \o Decimal(IF fs.exponent - 126 < 0 THEN 126 - fs.exponent
                              ELSE fs.exponent - 126)
         /\ fs.mantissa # 0

\* The printed fraction in thousandths: 1000 when the carry is raised.
Printed3(r) ==
  IF Carried(r) THEN 1000 ELSE Thousandths(TextAt(r.mem, test_array))

\* mantissa / 2^23 - printed / 1000 <= 0.002, with both sides multiplied by
\* 125 * 2^23: 125 * mantissa - 2^20 * printed <= 2 * 2^20
WithinTwoThousandths(mantissa, printed) ==
  125 * mantissa - 1048576 * printed <= 2 * 1048576

\* C20: for a finite non-zero float rendered with three digits, the printed
\* fraction 0.ddd (1.000 when the rounding carry is raised) is at most 0.002
\* below the true fraction mantissa / 2^23.
C20_Accuracy ==
  \A i \in Renders :
    (/\ strings[i].api = "float_to_string"
     /\ strings[i].digits = 3
     /\ Unsigned(strings[i].in) < PlusInf
     /\ Unsigned(strings[i].in) # 0)
    => WithinTwoThousandths(float_struct(strings[i].in).mantissa, Printed3(strings[i]))

\* ------------------------------------------------------------ float texts

\* The fraction rounded to d digits, from the value alone: the top nine
\* mantissa bits as a count of 1/512, which is 1953125 / 10^9 each, cut to
\* d + 1 digits and rounded half up.
RoundedFraction(mantissa, d) ==
  ((((mantissa \div 16384) * 1953125) \div Pow10(8 - d)) + 5) \div 10

CarryOf(mantissa, d) == IF RoundedFraction(mantissa, d) = Pow10(d) THEN 1 ELSE 0

\* v in exactly d decimal digits.
Padded(v, d) == [ j \in 1..d |-> Asc("0") + ((v \div Pow10(d - j)) % 10) ]

FractionDigits(mantissa, d) ==
  IF CarryOf(mantissa, d) = 1 THEN Rep(Asc("0"), d)
  ELSE Padded(RoundedFraction(mantissa, d), d)

SignedDecimal(v) == IF v < 0 THEN Str(<< "-" >>) \o Decimal(0 - v) ELSE Decimal(v)

\* The float calls that rendered a value of the given kind.
IsFloat(r) == r.api = "float_to_string"
Normal(r) == float_struct(r.in).exponent \in 1..254
Subnormal(r) == float_struct(r.in).exponent = 0 /\ float_struct(r.in).mantissa # 0

\* C21: a finite, non-zero, non-subnormal value with 1 to 3 digits renders
\* as '-' exactly when the sign bit is set, "1.", exactly that many decimal
\* digits, "x2^" and the signed decimal text of the exponent field minus
\* 127 plus the carry; the carry is 1 exactly when the rounded fraction
\* reached the next power of ten, and the digits are then all '0'.
C21_NormalText ==
  \A i \in Renders :
    (IsFloat(strings[i]) /\ Normal(strings[i]) /\ strings[i].digits \in 1..3)
    => LET fs == float_struct(strings[i].in)
           d  == strings[i].digits
       IN  TextAt(strings[i].mem, test_array)
             = (IF fs.sign = 1 THEN Str(<< "-" >>) ELSE << >>)
               \o Str(<< "1", "." >>)
               \o FractionDigits(fs.mantissa, d)
               \o Str(<< "x", "2", "^" >>)
               \o SignedDecimal(fs.exponent - 127 + CarryOf(fs.mantissa, d))

\* A negative value whose fraction rounds up to the next power of ten at
\* two digits: the digits are zeroes and the exponent is one higher.
C21_Witness ==
  \E i \in Renders :
    /\ IsFloat(strings[i])
    /\ strings[i].in = FloatBits(1, 126, 511 * 16384)
    /\ strings[i].digits = 2
    /\ TextAt(strings[i].mem, test_array)
         = Str(<< "-", "1", ".", "0", "0", "x", "2", "^", "0" >>)

\* The text of a subnormal value with the given exponent text.
SubnormalText(r, exponent) ==
  LET fs == float_struct(r.in)
  IN  (IF fs.sign = 1 THEN Str(<< "-" >>) ELSE << >>)
      \o (IF CarryOf(fs.mantissa, r.digits) = 1 THEN Str(<< "1" >>) ELSE Str(<< "0" >>))
      \o Str(<< "." >>)
      \o FractionDigits(fs.mantissa, r.digits)
      \o Str(<< "x", "2", "^" >>)
      \o exponent

\* C22 as stated: a subnormal value renders the exponent -126 when the
\* rounding did not carry and -125 when it did.
C22_AsClaimed ==
  \A i \in Renders :
    (IsFloat(strings[i]) /\ Subnormal(strings[i]) /\ strings[i].digits \in 1..3)
    => TextAt(strings[i].mem, test_array)
         = SubnormalText(strings[i],
                         SignedDecimal(CarryOf(float_struct(strings[i].in).mantissa,
                                               strings[i].digits) - 126))

\* C22: a subnormal value renders the one exponent text "-126" whether or
\* not the rounding carried; the carry shows in the leading digit alone,
\* "0." without it and "1." with it, over digits that are then all '0'.
C22_SubnormalExponent ==
  \A i \in Renders :
    (IsFloat(strings[i]) /\ Subnormal(strings[i]) /\ strings[i].digits \in 1..3)
    => TextAt(strings[i].mem, test_array)
         = SubnormalText(strings[i], Str(<< "-", "1", "2", "6" >>))

\* A subnormal value whose fraction rounds up to the next power of ten at
\* two digits.
C22_Witness ==
  \E i \in Renders :
    /\ IsFloat(strings[i])
    /\ strings[i].in = FloatBits(0, 0, 511 * 16384 + 16383)
    /\ strings[i].digits = 2
    /\ TextAt(strings[i].mem, test_array)
         = Str(<< "1", ".", "0", "0", "x", "2", "^", "-", "1", "2", "6" >>)

\* ------------------------------------------------------------ float buffer

\* The bytes of the caller's array a call has written.
WrittenOut(r) == r.wr \cap (test_array .. (test_array + TestArraySize - 1))

\* C23: with 1 to 3 digits float_to_string writes only the first
\* 11 + digits bytes of out_string, terminator included, whatever the bits
\* of the value; the text is at most 10 + digits characters long.
C23_FloatBuffer ==
  \A i \in Renders :
    (IsFloat(strings[i]) /\ strings[i].digits \in 1..3)
    => /\ WrittenOut(strings[i])
            \subseteq (test_array .. (test_array + 11 + strings[i].digits - 1))
       /\ Len(TextAt(strings[i].mem, test_array)) <= 10 + strings[i].digits
       /\ WrittenOut(strings[i])
            = (test_array .. (test_array + Len(TextAt(strings[i].mem, test_array))))

\* A negative value with a four-character exponent and three digits: the
\* longest text, filling the documented buffer.
C23_Witness ==
  \E i \in Renders :
    /\ IsFloat(strings[i])
    /\ strings[i].digits = 3
    /\ strings[i].in = FloatBits(1, 1, 255 * 16384)
    /\ Len(TextAt(strings[i].mem, test_array)) = 13
    /\ WrittenOut(strings[i]) = (test_array .. (test_array + 13))

\* ------------------------------------------------------------ accumulator

\* The loop of mantissa_to_string on the mantissa of a rendered float.
WalkOf(r) ==
  mantissa_walk(float_struct(r.in).mantissa, 22,
                [ temp_output |-> 0, fivecount |-> 5, wrapped |-> FALSE ])

\* C24: walking the mantissa bits 22 down to 14 wraps no 32-bit value: the
\* power of five ends at 5^9 = 1953125 and the accumulator at
\* (mantissa >> 14) * 1953125, at most 998046875, for every mantissa.
C24_NoWrap ==
  \A i \in Renders :
    IsFloat(strings[i])
    => /\ ~WalkOf(strings[i]).wrapped
       /\ WalkOf(strings[i]).fivecount = 1953125
       /\ WalkOf(strings[i]).temp_output
            = (float_struct(strings[i].in).mantissa \div 16384) * 1953125
       /\ WalkOf(strings[i]).temp_output >= 0
       /\ WalkOf(strings[i]).temp_output <= 998046875

\* The mantissa with every bit set rendered: the accumulator at its
\* largest.
C24_Witness ==
  \E i \in Renders :
    /\ IsFloat(strings[i])
    /\ float_struct(strings[i].in).mantissa = 8388607
    /\ float_struct(strings[i].in).exponent = 127
    /\ strings[i].digits = 3
    /\ WalkOf(strings[i]).temp_output = 998046875
    /\ TextAt(strings[i].mem, test_array)
         = Str(<< "1", ".", "9", "9", "8", "x", "2", "^", "0" >>)

\* ------------------------------------------------------------ hex dumps

\* %D converted: the byte pointer, the separator and the count in force.
DumpConverted == pc = "scan" /\ last.ch = Asc("D")
DumpBytes == call.args[last.pre.ap].s
DumpSeparator == call.args[last.pre.ap + 1].s
DumpCount == IF last.pre.width = 0 THEN 16 ELSE last.pre.width

\* The character at position x (from 0) of the dump of count bytes: two
\* lowercase hexadecimal digits per byte, high nibble first, and the
\* separator after each byte.
DumpChar(x) ==
  LET block == 2 + Len(DumpSeparator)
      byte  == DumpBytes[(x \div block) + 1]
      r     == x % block
  IN  IF r = 0 THEN LowerHex[(byte \div 16) + 1]
      ELSE IF r = 1 THEN LowerHex[(byte % 16) + 1]
      ELSE DumpSeparator[r - 1]

\* C26: %D emits exactly L bytes of the buffer, L being the width or 16
\* when the width is absent or 0, each as two lowercase hexadecimal digits
\* with the high nibble first, the separator between consecutive bytes and
\* not after the last: 2L + (L - 1) * len(separator) characters; and it
\* consumes two arguments.
C26_HexDump ==
  DumpConverted
  => /\ Len(last.text) = 2 * DumpCount + (DumpCount - 1) * Len(DumpSeparator)
     /\ \A x \in 1..Len(last.text) : last.text[x] = DumpChar(x - 1)
     /\ kv.ap = last.pre.ap + 2

\* Three bytes dumped with a two-character separator: eight hexadecimal
\* digits less two, and two separators.
C26_Witness ==
  /\ DumpConverted
  /\ last.pre.width = 3
  /\ DumpBytes[1] = 165
  /\ DumpSeparator = Str(<< ",", " " >>)
  /\ last.text = Str(<< "a", "5", ",", " ", "c", "a", ",", " ", "e", "f" >>)

\* ------------------------------------------------------------ print_buffer

\* C27: printf and vprintf store every byte, the terminator included, at
\* an index of print_buffer from 0 to PRINT_BUFFER_SIZE - 1, whatever the
\* format and the arguments.
C27_InsideBuffer ==
  \A i \in 1..Len(results) :
    results[i].api \in ConsoleApis
    => Len(results[i].dest) <= PRINT_BUFFER_SIZE

\* ------------------------------------------------------------ sequential use

\* The same float rendered by a first call, on temporaries never used.
FloatAlone(r) ==
  float_to_string(Fresh(Rep(0, MemSize), 0), r.in, r.digits, test_array)

SameRequest(r, q) == IsFloat(r) /\ IsFloat(q) /\ r.in = q.in /\ r.digits = q.digits

\* C28: called one after the other, float_to_string with one to three
\* digits produces a text that depends on its arguments only: the text of
\* a first call on untouched temporaries, whatever the calls before left
\* in temp_buffer_mant and temp_buffer_exp, so that two calls with the same
\* value and digits agree; and it reads no byte of the temporaries that it
\* has not written before in the same call.
C28_ArgumentsOnly ==
  \A i \in Renders :
    (IsFloat(strings[i]) /\ strings[i].digits \in 1..3)
    => /\ TextAt(strings[i].mem, test_array)
            = TextAt(FloatAlone(strings[i]).mem, test_array)
       /\ strings[i].stale \cap StaticBytes = {}
       /\ \A j \in Renders :
            SameRequest(strings[i], strings[j])
            => TextAt(strings[j].mem, test_array) = TextAt(strings[i].mem, test_array)

\* A short positive float rendered before and after a negative subnormal
\* with MaxDigits digits: the second rendering starts on temporaries that
\* hold the longer text and produces the text of the first.
C28_Witness ==
  /\ Len(strings) = 3
  /\ SameRequest(strings[1], strings[3])
  /\ strings[1].in = FloatBits(0, 127, 4194304)
  /\ strings[1].digits = 1
  /\ strings[2].in = FloatBits(1, 0, 8388607)
  /\ strings[2].digits = MaxDigits
  /\ strings[2].mem[temp_buffer_mant + 1] = Asc("-")
  /\ Len(TextAt(strings[2].mem, temp_buffer_mant)) > Len(TextAt(strings[3].mem, temp_buffer_mant))
  /\ TextAt(strings[3].mem, test_array) = Str(<< "1", ".", "5", "x", "2", "^", "0" >>)
  /\ TextAt(strings[1].mem, test_array) = TextAt(strings[3].mem, test_array)

\* ------------------------------------------------------------ three digits

\* mantissa_to_string on the mantissa of a rendered float, as float_to_string
\* calls it for a positive value.
DigitsOf(r) ==
  mantissa_to_string(Fresh(Rep(0, MemSize), 0), float_struct(r.in).mantissa, r.digits,
                     temp_buffer_mant + 2)

SignText(r) == IF float_struct(r.in).sign = 1 THEN Str(<< "-" >>) ELSE << >>

\* C29: with three digits the rounding carry is never raised: for every
\* mantissa mantissa_to_string leaves exponent_add at 0 and the digit field
\* is at most "998", so a normal value keeps the exponent of its exponent
\* field and a subnormal one keeps the leading digit 0.
C29_NoCarryAtThree ==
  \A i \in Renders :
    (IsFloat(strings[i]) /\ strings[i].digits = 3
       /\ (Normal(strings[i]) \/ Subnormal(strings[i])))
    => LET r     == strings[i]
           field == TextAt(DigitsOf(r).mem, temp_buffer_mant + 2)
           value == 100 * (field[1] - Asc("0")) + 10 * (field[2] - Asc("0"))
                    + (field[3] - Asc("0"))
       IN  /\ DigitsOf(r).exponent_add_1 = 0
           /\ Len(field) = 3
           /\ \A x \in 1..3 : field[x] \in Asc("0") .. Asc("9")
           /\ value <= 998
           /\ TextAt(r.mem, test_array)
                = SignText(r)
                  \o (IF Normal(r) THEN Str(<< "1", "." >>) ELSE Str(<< "0", "." >>))
                  \o field \o Str(<< "x", "2", "^" >>)
                  \o (IF Normal(r) THEN SignedDecimal(float_struct(r.in).exponent - 127)
                      ELSE Str(<< "-", "1", "2", "6" >>))

\* The largest negative subnormal rendered with three digits: the digit
\* field at its largest, the leading digit still 0.
C29_Witness ==
  \E i \in Renders :
    /\ IsFloat(strings[i])
    /\ strings[i].digits = 3
    /\ strings[i].in = FloatBits(1, 0, 8388607)
    /\ DigitsOf(strings[i]).exponent_add_1 = 0
    /\ TextAt(strings[i].mem, test_array)
         = Str(<< "-", "0", ".", "9", "9", "8", "x", "2", "^", "-", "1", "2", "6" >>)

\* ------------------------------------------------------------ signed decimal

\* %d or %i converted with no flag, width, precision or length modifier.
PlainDecimal ==
  /\ pc = "scan"
  /\ last.ch \in { Asc("d"), Asc("i") }
  /\ call.fmt = << Asc("%"), last.ch >>

\* The decimal digits of the magnitude of a 32-bit signed value.
MagnitudeText(v) ==
  IF v = INT_MIN THEN Str(<< "2", "1", "4", "7", "4", "8", "3", "6", "4", "8" >>)
  ELSE Decimal(IF v < 0 THEN 0 - v ELSE v)

\* C30: %d and %i render every 32-bit signed value, the minimum
\* -2147483648 included, as '-' exactly when it is negative followed by the
\* decimal digits of its magnitude, through every entry point.
C30_SignedDecimal ==
  /\ PlainDecimal
     => last.text = (IF Converted.i < 0 THEN Str(<< "-" >>) ELSE << >>)
                    \o MagnitudeText(Converted.i)
  /\ \A i \in 1..Len(results) :
       (/\ results[i].fmt \in { Str(<< "%", "d" >>), Str(<< "%", "i" >>) }
        /\ results[i].nargs = 1)
       => LET v    == results[i].args[1].i
              text == (IF v < 0 THEN Str(<< "-" >>) ELSE << >>) \o MagnitudeText(v)
          IN  /\ results[i].retval = Len(text)
              /\ results[i].dest = text \o << NUL >>

\* The minimum value rendered by %d.
C30_Witness ==
  /\ PlainDecimal
  /\ call.api = "sprintf"
  /\ Converted.i = INT_MIN
  /\ last.pre.neg = 0
  /\ kv.neg = 1
  /\ last.text = Str(<< "-", "2", "1", "4", "7", "4", "8", "3", "6", "4", "8" >>)

\* ------------------------------------------------------------ re-entrancy

\* What a call made with interrupts unmasked produces when nothing
\* interrupts it: the text of float_to_string on temporaries of its own,
\* the rendered characters and their terminator for printf.
AloneText(e) ==
  IF e.api = "float_to_string" THEN TextAt(FloatAlone(e).mem, test_array)
  ELSE e.emitted \o << NUL >>

TornFloat(e) == e.api = "float_to_string" /\ e.by.api = "float_to_string"
TornPrintf(e) == e.api \in ConsoleApis /\ e.by.api = "printf"

\* C25: float_to_string and printf / vprintf are not re-entrant.  A call
\* whose text differs from the text it produces alone has been interrupted
\* between two of its steps by a handler calling the same function on the
\* shared static storage; a float_to_string interrupted just before it
\* appends the temporaries returns the text of the handler's number, and a
\* printf interrupted just before the transport call sends the handler's
\* text and terminator at the start of print_buffer.
C25_NotReentrant ==
  \A i \in 1..Len(unmasked) :
    LET e == unmasked[i]
    IN  /\ e.text # AloneText(e)
           => \/ TornFloat(e) /\ ~Literal(e.by.in)
              \/ TornPrintf(e)
        /\ (TornFloat(e) /\ e.by.at = 4 /\ ~Literal(e.by.in))
           => e.text = e.by.text
        /\ (TornPrintf(e) /\ e.by.at = 3)
           => \A x \in 1..Len(e.text) :
                x <= Len(e.by.text) + 1 => e.text[x] = (e.by.text \o << NUL >>)[x]

\* A float_to_string of 1.5 interrupted before it writes its exponent by a
\* handler rendering a negative number, and then a printf of "hello"
\* interrupted before its transport call by a handler printing "irq": the
\* first returns the handler's coefficient with its own exponent, the
\* second sends "irq", a terminator and the rest of its own text.
C25_Witness ==
  \E i \in 1..Len(unmasked) : \E j \in 1..Len(unmasked) :
    /\ TornFloat(unmasked[i])
    /\ unmasked[i].by.at = 3
    /\ AloneText(unmasked[i]) = Str(<< "1", ".", "5", "x", "2", "^", "0" >>)
    /\ unmasked[i].text = Str(<< "-", "1", ".", "9", "9", "8", "x", "2", "^", "0" >>)
    /\ TornPrintf(unmasked[j])
    /\ unmasked[j].by.at = 3
    /\ AloneText(unmasked[j]) = Str(<< "h", "e", "l", "l", "o" >>) \o << NUL >>
    /\ unmasked[j].text = Str(<< "i", "r", "q" >>) \o << NUL >> \o Str(<< "o" >>) \o << NUL >>

====
